---------------------------- MODULE Spec2Model ----------------------------
(***************************************************************************)
(* Model of the CAPTCHA post-processing service (src/main.py): the         *)
(* coordinate mapper convert_coordinates, the detector call                *)
(* analyze_image_with_roboflow and the pipeline process_image.             *)
(*                                                                         *)
(* Representation of Python values:                                        *)
(*   - a dict is a TLA+ function; a key the dict lacks is not in its       *)
(*     DOMAIN (d.get(k, v) is Get(d, k, v));                               *)
(*   - a raw float geometry value (x, y, width, height) is an integer      *)
(*     number of tenths, so 1505 stands for 150.5;                         *)
(*   - a confidence is an integer number of hundredths (95 is 0.95);       *)
(*   - the float arithmetic of convert_coordinates is IEEE binary64,       *)
(*     computed on bit sequences (most significant bit first).             *)
(***************************************************************************)
EXTENDS Integers, Sequences, FiniteSets, TLC

(***************************************************************************)
(* Layout constants, src/main.py:79-106                                    *)
(***************************************************************************)
FULL_BROWSER_WIDTH == 502
FULL_BROWSER_HEIGHT == 606
CAPTCHA_CONTAINER_WIDTH == 312
TITLE_HEIGHT == 42
CAPTCHA_IMAGE_WIDTH == 288
CAPTCHA_IMAGE_HEIGHT == 179
CAPTCHA_CONTAINER_X == (FULL_BROWSER_WIDTH - CAPTCHA_CONTAINER_WIDTH) \div 2
CAPTCHA_CONTAINER_Y == 150
TITLE_Y == CAPTCHA_CONTAINER_Y
CAPTCHA_IMAGE_X ==
    CAPTCHA_CONTAINER_X + (CAPTCHA_CONTAINER_WIDTH - CAPTCHA_IMAGE_WIDTH) \div 2
CAPTCHA_IMAGE_Y == TITLE_Y + TITLE_HEIGHT + 5

(***************************************************************************)
(* Python helpers                                                          *)
(***************************************************************************)
\* d.get(k, v)
Get(d, k, v) == IF k \in DOMAIN d THEN d[k] ELSE v

\* the floor of a float given in tenths
IntOfFloor(v) == v \div 10

\* int(v) of a float given in tenths: truncation toward zero
IntOf(v) == IF v >= 0 THEN v \div 10 ELSE -((-v) \div 10)

\* a list from its last element to its first
Reverse(s) == [i \in 1..Len(s) |-> s[Len(s) + 1 - i]]

(***************************************************************************)
(* Inputs                                                                  *)
(***************************************************************************)
\* the largest number of detections in one detector response
MaxDet == 3

\* max_retries of analyze_image_with_roboflow
max_retries == 3

\* what a raw detection says about its class: nothing, or a label and its id
ClassParts ==
    << << >>,
       [class |-> "A", class_id |-> 1],
       [class |-> "unknown", class_id |-> 2] >>

\* what a raw detection says about its confidence: nothing, 0.90 or 0.95
ConfidenceParts == << << >>, [confidence |-> 90], [confidence |-> 95] >>

\* the boxes of a response, by position in the predictions list (in tenths):
\* all at the same point, or at points that differ in the fractional part
\* only, lie left of the image or lie far beyond it
Geometries ==
    << << [x |-> 1500, y |-> 750, width |-> 200, height |-> 300] >>,
       << [x |-> 1507, y |-> 752, width |-> 209, height |-> 305],
          [x |-> 1502, y |-> 759, width |-> 201, height |-> 309],
          [x |-> -10007, y |-> 999999, width |-> 15, height |-> 8] >> >>

GeometryAt(g, i) == Geometries[g][((i - 1) % Len(Geometries[g])) + 1]

\* the i-th raw detection of a response; the detector gives every
\* detection its own detection_id
RawDetection(i, c, f, g) ==
    ClassParts[c] @@ ConfidenceParts[f] @@ GeometryAt(g, i)
        @@ [detection_id |-> ToString(i)]

\* the image object of a response: absent, zero-sized, without width and
\* height, or the size of the image
ImageParts ==
    << << >>,
       [image |-> [width |-> 0, height |-> 0]],
       [image |-> << >>],
       [image |-> [width |-> 300, height |-> 150]] >>

\* the labels of the detections of a response, by position
LabelChoices == (1..Len(ClassParts)) \X (1..Len(ConfidenceParts))

LabelLists == UNION { [1..n -> LabelChoices] : n \in 0..MaxDet }

\* the labels of four detections in two classes of two: two detections say
\* "A", two say nothing or "unknown", and each has a confidence
PairedLists ==
    { ch \in [1..4 -> LabelChoices] :
        /\ Cardinality({i \in 1..4 : ch[i][1] = 2}) = 2
        /\ \A i \in 1..4 : ch[i][2] # 1 }

\* a JSON object the detector may answer with: image part im, the
\* detections labelled by ch at the boxes g
DetectorObject(im, g, ch) ==
    ImageParts[im] @@
    [predictions |-> [i \in 1..Len(ch) |-> RawDetection(i, ch[i][1], ch[i][2], g)]]

\* the keyword arguments of a process_image call
CallArguments ==
    << << >>,
       [captcha_offset_x |-> 50, captcha_offset_y |-> 100],
       [captcha_offset_y |-> -700],
       [captcha_offset_x |-> 0] >>

\* image coordinates: inside the image, on its border, negative, very large
Coordinates == {-100000, -1, 0, 25, 75, 150, 299, 100000}

ImageSizes == { <<300, 150>>, <<10, 10>>, <<1, 1>>, <<4096, 3>>,
                <<0, 150>>, <<300, 0>> }

Offsets == { <<CAPTCHA_IMAGE_X, CAPTCHA_IMAGE_Y>>, <<50, 100>>,
             <<-100000, 100000>>, <<100000, -100000>> }

\* the arguments the model's inputs give to the float operations below
InputCoordinates ==
    Coordinates \cup
    UNION { { IntOf(Geometries[g][i][k]) :
                i \in 1..Len(Geometries[g]), k \in {"x", "y"} } :
            g \in 1..Len(Geometries) }

InputSizes ==
    { sz[k] : sz \in ImageSizes, k \in 1..2 } \cup
    { ImageParts[im].image[k] :
        im \in { j \in 1..Len(ImageParts) :
                   "image" \in DOMAIN ImageParts[j] /\ ImageParts[j].image # << >> },
        k \in {"width", "height"} } \cup {1}

(***************************************************************************)
(* IEEE binary64 arithmetic on bit sequences.  A positive double is        *)
(* [m |-> bits, e |-> exponent] with value  m * 2^e, m having at most      *)
(* MANT_DIG bits, the first of them 1.  TLC's integers have 32 bits: the   *)
(* operators are written for sizes below 2^15 and coordinates below 2^17.  *)
(***************************************************************************)
MANT_DIG == 53

Abs(n) == IF n < 0 THEN -n ELSE n
Min(a, b) == IF a < b THEN a ELSE b
Max(a, b) == IF a > b THEN a ELSE b

RECURSIVE Pow2(_)
Pow2(n) ==
    IF n = 0 THEN 1
    ELSE LET h == Pow2(n \div 2)
         IN  IF n % 2 = 0 THEN h * h ELSE 2 * h * h

\* a sequence given as a function on 1..n, as a tuple (in TLC the tuple is
\* computed once, the function at every application)
Tuple(f) == f \o << >>

\* the integer v < 2^n as n bits
Bits(v, n) == Tuple([i \in 1..n |-> (v \div Pow2(n - i)) % 2])

\* the integer a bit sequence of at most 31 bits stands for
RECURSIVE BitsToInt(_)
BitsToInt(bits) ==
    IF bits = << >> THEN 0
    ELSE IF Len(bits) = 1 THEN bits[1]
    ELSE LET h == Len(bits) \div 2
         IN  BitsToInt(SubSeq(bits, 1, h)) * Pow2(Len(bits) - h)
               + BitsToInt(SubSeq(bits, h + 1, Len(bits)))

AnyOne(bits) == \E i \in 1..Len(bits) : bits[i] = 1

\* bits without its leading zeros
Strip(bits) ==
    IF AnyOne(bits)
    THEN SubSeq(bits, CHOOSE i \in 1..Len(bits) :
                         bits[i] = 1 /\ \A j \in 1..(i - 1) : bits[j] = 0,
                Len(bits))
    ELSE << >>

\* bits + 1; a carry out of the first bit lengthens the sequence by one
IncBits(bits) ==
    IF \E i \in 1..Len(bits) : bits[i] = 0
    THEN LET z == CHOOSE i \in 1..Len(bits) :
                     bits[i] = 0 /\ \A j \in (i + 1)..Len(bits) : bits[j] = 1
         IN  Tuple([i \in 1..Len(bits) |->
                      IF i < z THEN bits[i] ELSE IF i = z THEN 1 ELSE 0])
    ELSE <<1>> \o [i \in 1..Len(bits) |-> 0]

\* round-half-to-even of  kept.rest  (kept the bits before the rounding
\* position, rest the bits after it)
RoundHalfEven(kept, rest) ==
    LET guard  == IF rest = << >> THEN 0 ELSE rest[1]
        sticky == AnyOne(SubSeq(rest, 2, Len(rest)))
        odd    == kept # << >> /\ kept[Len(kept)] = 1
    IN  IF guard = 1 /\ (sticky \/ odd) THEN IncBits(kept) ELSE kept

\* a bit sequence of any length as a double: rounded to MANT_DIG bits
Normalize(bits, e) ==
    IF Len(bits) <= MANT_DIG THEN [m |-> bits, e |-> e]
    ELSE LET drop == Len(bits) - MANT_DIG
             r    == RoundHalfEven(SubSeq(bits, 1, MANT_DIG),
                                   SubSeq(bits, MANT_DIG + 1, Len(bits)))
         IN  IF Len(r) > MANT_DIG
             THEN [m |-> SubSeq(r, 1, MANT_DIG), e |-> e + drop + 1]
             ELSE [m |-> r, e |-> e + drop]

\* 2^i mod den
RECURSIVE PowMod(_, _)
PowMod(i, den) ==
    IF i = 0 THEN 1 % den
    ELSE LET h == PowMod(i \div 2, den)
         IN  IF i % 2 = 0 THEN (h * h) % den ELSE (2 * ((h * h) % den)) % den

\* (num * 2^i) mod den: the remainder of the long division num / den after
\* i binary places
Remainder(num, den, i) == ((num % den) * PowMod(i, den)) % den

\* num/den scaled by a power of two into [1, 2)
RECURSIVE Scale(_, _, _)
Scale(num, den, e) ==
    IF num < den THEN Scale(2 * num, den, e - 1)
    ELSE IF num >= 2 * den THEN Scale(num, 2 * den, e + 1)
    ELSE [num |-> num, den |-> den, e |-> e]

\* the double nearest to a / b for integers a > 0, b > 0 (float division):
\* the first MANT_DIG bits of the quotient, rounded half-to-even by the
\* remainder
QuotientBits(num, den) ==
    Tuple([i \in 1..MANT_DIG |->
             IF i = 1 THEN 1 ELSE (2 * Remainder(num, den, i - 2)) \div den])

\* bits rounded half-to-even by twice the remainder behind them
RoundUp(bits, last, den) ==
    IF last > den \/ (last = den /\ bits[MANT_DIG] = 1)
    THEN IncBits(bits) ELSE bits

Mantissa(m, e) ==
    IF Len(m) > MANT_DIG
    THEN [m |-> SubSeq(m, 1, MANT_DIG), e |-> e - MANT_DIG + 2]
    ELSE [m |-> m, e |-> e - MANT_DIG + 1]

FloatDivideScaled(s) ==
    Mantissa(RoundUp(QuotientBits(s.num, s.den),
                     2 * Remainder(s.num, s.den, MANT_DIG - 1), s.den), s.e)

FloatDivide(a, b) == FloatDivideScaled(Scale(a, b, 0))

\* FloatDivide, computed once for the sizes of the inputs
FloatRatios ==
    { [a |-> a, b |-> b, ratio |-> FloatDivide(a, b)] :
        a \in {CAPTCHA_IMAGE_WIDTH, CAPTCHA_IMAGE_HEIGHT}, b \in InputSizes \ {0} }

FloatDiv(a, b) == (CHOOSE r \in FloatRatios : r.a = a /\ r.b = b).ratio

\* the j-th group of 13 bits of a bit sequence, counted from its end
Limb(bits, j) ==
    BitsToInt(SubSeq(bits, Max(1, Len(bits) - 13 * j + 1),
                     Len(bits) - 13 * (j - 1)))

\* n * bits for an integer 0 <= n < 2^17, by groups of 13 bits from the end
RECURSIVE MulLimbs(_, _, _, _)
MulLimbs(bits, n, j, carry) ==
    IF 13 * (j - 1) >= Len(bits) THEN Bits(carry, 18)
    ELSE LET t == n * Limb(bits, j) + carry
         IN  MulLimbs(bits, n, j + 1, t \div 8192) \o Bits(t % 8192, 13)

MulBits(bits, n) == Strip(MulLimbs(bits, n, 1, 0))

\* the double nearest to n * f for an integer n > 0 and a double f
IntTimesFloat(n, f) == Normalize(MulBits(f.m, n), f.e)

\* int(f) of a positive double: the fraction dropped
TruncateFloat(f) ==
    IF f.e >= 0 THEN BitsToInt(f.m) * Pow2(f.e)
    ELSE IF Len(f.m) + f.e < 0 THEN 0
    ELSE BitsToInt(SubSeq(f.m, 1, Len(f.m) + f.e))

\* Python's round(f) of a positive double: nearest integer, ties to even
RoundFloat(f) ==
    IF f.e >= 0 THEN BitsToInt(f.m) * Pow2(f.e)
    ELSE LET cut == Len(f.m) + f.e     \* number of integer bits
         IN  IF cut < 0 THEN 0
             ELSE BitsToInt(RoundHalfEven(SubSeq(f.m, 1, cut),
                                          SubSeq(f.m, cut + 1, Len(f.m))))

\* round(c * (target / size)) of lines 118-123
Signed(c, r) == IF c < 0 THEN -r ELSE r

RoundedProduct(c, target, size) ==
    IF c = 0 THEN 0
    ELSE Signed(c, RoundFloat(IntTimesFloat(Abs(c), FloatDiv(target, size))))

\* RoundedProduct, computed once for the coordinates and sizes of the inputs
RoundedProducts ==
    { [c |-> c, target |-> t, size |-> s, rounded |-> RoundedProduct(c, t, s)] :
        c \in InputCoordinates,
        t \in {CAPTCHA_IMAGE_WIDTH, CAPTCHA_IMAGE_HEIGHT},
        s \in InputSizes \ {0} }

ScaleCoord(c, target, size) ==
    (CHOOSE r \in RoundedProducts :
         r.c = c /\ r.target = target /\ r.size = size).rounded

\* the divisions of convert_coordinates (lines 118-119) raise
\* ZeroDivisionError exactly when a component of image_size is 0
ConvertRaises(image_size) == image_size[1] = 0 \/ image_size[2] = 0

\* convert_coordinates without the lower clamp of lines 130-131
convert_coordinates_no_lower_clamp(image_coord, image_size, captcha_offset) ==
    << Min(captcha_offset[1] + ScaleCoord(image_coord[1], CAPTCHA_IMAGE_WIDTH,
                                          image_size[1]), FULL_BROWSER_WIDTH),
       Min(captcha_offset[2] + ScaleCoord(image_coord[2], CAPTCHA_IMAGE_HEIGHT,
                                          image_size[2]), FULL_BROWSER_HEIGHT) >>

\* convert_coordinates for an image_size with no zero component
\* (captcha_x, captcha_y the scaled point of lines 122-123, browser_x,
\* browser_y the sums of lines 126-127, clamped by lines 130-131)
convert_coordinates(image_coord, image_size, captcha_offset) ==
    << Min(Max(0, captcha_offset[1] + ScaleCoord(image_coord[1],
                      CAPTCHA_IMAGE_WIDTH, image_size[1])), FULL_BROWSER_WIDTH),
       Min(Max(0, captcha_offset[2] + ScaleCoord(image_coord[2],
                      CAPTCHA_IMAGE_HEIGHT, image_size[2])), FULL_BROWSER_HEIGHT) >>

\* round(target / size, 4) in units of 1/10000: the double target/size,
\* rounded half-to-even at the fourth decimal place
TimesInt(f, n) == [m |-> MulBits(f.m, n), e |-> f.e]

RoundedRatio(target, size) == RoundFloat(TimesInt(FloatDiv(target, size), 10000))

\* RoundedRatio, computed once for the sizes of the inputs
RoundedRatios ==
    { [target |-> t, size |-> s, rounded |-> RoundedRatio(t, s)] :
        t \in {CAPTCHA_IMAGE_WIDTH, CAPTCHA_IMAGE_HEIGHT}, s \in InputSizes \ {0} }

Round4(target, size) ==
    (CHOOSE r \in RoundedRatios : r.target = target /\ r.size = size).rounded

\* the sort key  lambda x: x.get("confidence", 0)
ConfidenceKey(pred) == Get(pred, "confidence", 0)

\* an insertion that sorts ascending (reverse=True forgotten)
InsertAscending(sorted, p) ==
    LET n == Cardinality({i \in 1..Len(sorted) :
                             Get(sorted[i], "confidence", 0) <= Get(p, "confidence", 0)})
    IN  SubSeq(sorted, 1, n) \o <<p>> \o SubSeq(sorted, n + 1, Len(sorted))

\* an insertion that puts p before the elements of equal key (the order
\* reverse=True would give if it reversed an ascending sort)
InsertDescendingUnstable(sorted, p) ==
    LET n == Cardinality({i \in 1..Len(sorted) :
                             Get(sorted[i], "confidence", 0) > Get(p, "confidence", 0)})
    IN  SubSeq(sorted, 1, n) \o <<p>> \o SubSeq(sorted, n + 1, Len(sorted))

\* one insertion of a stable descending sort: p goes behind every element
\* whose key is >= its own
InsertDescending(sorted, p) ==
    LET n == Cardinality({i \in 1..Len(sorted) :
                             ConfidenceKey(sorted[i]) >= ConfidenceKey(p)})
    IN  SubSeq(sorted, 1, n) \o <<p>> \o SubSeq(sorted, n + 1, Len(sorted))

\* sorted(predictions, key=ConfidenceKey, reverse=True); Python's sort is
\* stable and reverse=True keeps the input order of equal keys
RECURSIVE sorted_by_confidence(_)
sorted_by_confidence(predictions) ==
    IF predictions = << >> THEN << >>
    ELSE InsertDescending(
             sorted_by_confidence(SubSeq(predictions, 1, Len(predictions) - 1)),
             predictions[Len(predictions)])

(***************************************************************************)
(* process_image, lines 213-393: from the detector's JSON to the envelope  *)
(***************************************************************************)
\* no defaulting of the class
default_class_omitted(prediction) == prediction

\* lines 230-231: a prediction without "class" gets class "unknown"
default_class(prediction) ==
    IF "class" \in DOMAIN prediction THEN prediction
    ELSE ("class" :> "unknown") @@ prediction

\* the basic fields exist, the substituted image being 1 x 1
ensure_fields_unit_image(results) ==
    LET r1 == IF "image" \in DOMAIN results THEN results
              ELSE ("image" :> [width |-> 1, height |-> 1]) @@ results
    IN  IF "predictions" \in DOMAIN r1 THEN r1
        ELSE ("predictions" :> << >>) @@ r1

\* lines 214-217: the basic fields exist
ensure_fields(results) ==
    LET r1 == IF "image" \in DOMAIN results THEN results
              ELSE ("image" :> [width |-> 0, height |-> 0]) @@ results
    IN  IF "predictions" \in DOMAIN r1 THEN r1
        ELSE ("predictions" :> << >>) @@ r1

\* lines 259-262 and 304-307
image_size_of(results) ==
    << Get(Get(results, "image", << >>), "width", 0),
       Get(Get(results, "image", << >>), "height", 0) >>

\* lines 297-330 (and 252-285): the normalized record of one prediction
\* lines 309-330 (and 264-285): the record of a prediction whose browser
\* coordinate is browser_coord
integer_pred(pred, browser_coord) ==
    [ browser_x    |-> browser_coord[1],
      browser_y    |-> browser_coord[2],
      class        |-> Get(pred, "class", ""),
      class_id     |-> Get(pred, "class_id", 0),
      confidence   |-> Get(pred, "confidence", 0),
      detection_id |-> Get(pred, "detection_id", ""),
      height       |-> IntOf(Get(pred, "height", 0)),
      width        |-> IntOf(Get(pred, "width", 0)),
      x            |-> IntOf(Get(pred, "x", 0)),
      y            |-> IntOf(Get(pred, "y", 0)) ]

\* lines 298-301 (and 253-256): original_coord
original_coord(pred) == << IntOf(Get(pred, "x", 0)), IntOf(Get(pred, "y", 0)) >>

\* lines 297-330 (and 252-285): the normalized record of one prediction
standardize(pred, results, offset_x, offset_y) ==
    integer_pred(pred, convert_coordinates(original_coord(pred),
                           image_size_of(results), <<offset_x, offset_y>>))

\* lines 227-234: class_groups, a defaultdict in insertion order, as the
\* sequence of its items [class_name, predictions]
RECURSIVE group_by_class(_)
group_by_class(sorted_predictions) ==
    IF sorted_predictions = << >> THEN << >>
    ELSE LET n          == Len(sorted_predictions)
             groups     == group_by_class(SubSeq(sorted_predictions, 1, n - 1))
             prediction == default_class(sorted_predictions[n])
             class_name == Get(prediction, "class", "")
             at         == {i \in 1..Len(groups) : groups[i].class_name = class_name}
         IN  IF at = {}
             THEN Append(groups, [class_name  |-> class_name,
                                  predictions |-> <<prediction>>])
             ELSE [i \in 1..Len(groups) |->
                     IF i \in at
                     THEN [groups[i] EXCEPT !.predictions = Append(@, prediction)]
                     ELSE groups[i]]

\* a duplicate test that is off by one
is_duplicate_group_off_by_one(group) == Len(group.predictions) >= 1

\* line 241: the class is a duplicate class
is_duplicate_group(group) == Len(group.predictions) > 1

SelectGroups(groups) == SelectSeq(groups, is_duplicate_group)

\* the predictions of a class sorted without reverse=True
sorted_class_predictions_ascending(predictions) ==
    Reverse(sorted_by_confidence(Reverse(predictions)))

\* lines 243-247: the predictions of a duplicate class, sorted again
sorted_class_predictions(predictions) == sorted_by_confidence(predictions)

\* lines 250-287: the records of the predictions of a duplicate class
standardized_predictions(predictions, results, offset_x, offset_y) ==
    [j \in 1..Len(predictions) |->
        standardize(predictions[j], results, offset_x, offset_y)]

\* lines 240-292: duplicate_classes, a dict in insertion order, as the
\* sequence of its items [class_name, count, details]
duplicate_classes_of(class_groups, results, offset_x, offset_y) ==
    LET dups == SelectGroups(class_groups)
    IN  [i \in 1..Len(dups) |->
            [ class_name |-> dups[i].class_name,
              count      |-> Len(dups[i].predictions),
              details    |-> standardized_predictions(
                                 sorted_class_predictions(dups[i].predictions),
                                 results, offset_x, offset_y) ]]

\* lines 238 and 287: duplicate_list
RECURSIVE Flatten(_)
Flatten(entries) ==
    IF entries = << >> THEN << >>
    ELSE entries[1].details \o Flatten(Tail(entries))

\* the details lists put one before the other, the last class first
duplicate_list_prepended(duplicate_classes) ==
    Flatten(Reverse(duplicate_classes))

\* lines 238, 287 and 347: duplicate_list, appended to class after class
duplicate_list(duplicate_classes) == Flatten(duplicate_classes)

\* the number of classes that have one detection
count_classes_of_one(class_groups) ==
    Len(SelectSeq(class_groups, LAMBDA g : Len(g.predictions) = 1))

\* the length of class_groups (unique_characters of the envelope)
count_classes(class_groups) == Len(class_groups)

\* all_integer_predictions without the members of duplicate classes
all_integer_predictions_unique_only(sorted_predictions, results, offset_x, offset_y) ==
    LET unique == SelectSeq(sorted_predictions,
                     LAMBDA p : Cardinality({i \in 1..Len(sorted_predictions) :
                                   Get(sorted_predictions[i], "class", "") =
                                       Get(p, "class", "")}) = 1)
    IN  [i \in 1..Len(unique) |->
            standardize(unique[i], results, offset_x, offset_y)]

\* lines 295-331: all_integer_predictions
all_integer_predictions(sorted_predictions, results, offset_x, offset_y) ==
    [i \in 1..Len(sorted_predictions) |->
        standardize(sorted_predictions[i], results, offset_x, offset_y)]

\* the ratios of the envelope taken with the defaults of lines 305-306
ratio_raises_default_zero(results) ==
    \/ Get(results.image, "width", 0) = 0
    \/ Get(results.image, "height", 0) = 0

\* lines 337-338: a ratio of the envelope divides by zero
ratio_raises(results) ==
    \/ Get(results.image, "width", 1) = 0
    \/ Get(results.image, "height", 1) = 0

\* lines 400-406: the error envelope
error_output(message) ==
    [ error                |-> message,
      details              |-> "Loi trong qua trinh xu ly anh",
      duplicate_characters |-> << >>,
      duplicates           |-> << >>,
      all_predictions      |-> << >> ]

\* lines 334-391: the envelope
envelope(results, class_groups, duplicate_classes, all_predictions, offset_x, offset_y) ==
    [ all_predictions      |-> all_predictions,
      coordinate_transform |->
          [ x_ratio  |-> Round4(CAPTCHA_IMAGE_WIDTH,
                                Get(results.image, "width", 1)),
            y_ratio  |-> Round4(CAPTCHA_IMAGE_HEIGHT,
                                Get(results.image, "height", 1)),
            offset_x |-> offset_x,
            offset_y |-> offset_y ],
      duplicate_characters |-> duplicate_classes,
      duplicate_count      |-> Len(duplicate_classes),
      duplicates           |-> duplicate_list(duplicate_classes),
      image                |->
          [ captcha_height      |-> CAPTCHA_IMAGE_HEIGHT,
            captcha_width       |-> CAPTCHA_IMAGE_WIDTH,
            full_browser_height |-> FULL_BROWSER_HEIGHT,
            full_browser_width  |-> FULL_BROWSER_WIDTH,
            height              |-> Get(results.image, "height", 0),
            width               |-> Get(results.image, "width", 0),
            captcha_offset_x    |-> offset_x,
            captcha_offset_y    |-> offset_y ],
      total_detected       |-> Len(results.predictions),
      unique_characters    |-> count_classes(class_groups) ]

\* the predictions after the in-place defaulting of line 231
defaulted(sorted_predictions) ==
    [i \in 1..Len(sorted_predictions) |-> default_class(sorted_predictions[i])]

\* lines 220-393 for the sorted predictions: the loops raise
\* ZeroDivisionError at their first convert_coordinates call, the ratios of
\* lines 337-338 at the envelope
assemble_sorted(results, sorted_predictions, offset_x, offset_y) ==
    IF \/ (sorted_predictions # << >> /\ ConvertRaises(image_size_of(results)))
       \/ ratio_raises(results)
    THEN error_output("division by zero")
    ELSE envelope(results,
                  group_by_class(sorted_predictions),
                  duplicate_classes_of(group_by_class(sorted_predictions),
                                       results, offset_x, offset_y),
                  all_integer_predictions(defaulted(sorted_predictions),
                                          results, offset_x, offset_y),
                  offset_x, offset_y)

\* lines 214-224 for a JSON object: the basic fields, then the sort
assemble_object(results, offset_x, offset_y) ==
    assemble_sorted(results, sorted_by_confidence(results.predictions),
                    offset_x, offset_y)

\* lines 213-393 under the try/except of lines 200 and 395: the value
\* process_image returns for the detector's JSON
assemble(response, offset_x, offset_y) ==
    IF response.json # "object"
    THEN error_output("TypeError")       \* results["image"] = ... on a non-dict
    ELSE assemble_object(ensure_fields(response.value), offset_x, offset_y)

(***************************************************************************)
(* State                                                                   *)
(***************************************************************************)
VARIABLES
    pc,                 \* where the process_image call stands
    args,               \* the offsets the caller passed
    captcha_offset_x,   \* the local of process_image after lines 202-203
    captcha_offset_y,   \* the local of process_image after lines 204-205
    retry_count,        \* the local of analyze_image_with_roboflow (0 when
                        \* no call of it is under way)
    posts,              \* the requests.post calls of the detector call that
                        \* is under way or that failed (forgotten when the
                        \* call returns a response)
    outcome,            \* how the last requests.post call ended
    results,            \* what analyze_image_with_roboflow returned
    output,             \* what process_image returned
    conv_call,          \* the arguments of a direct convert_coordinates call
    conv_result,        \* and its outcome
    http_pc,            \* where the handler of the HTTP request stands
    http_request,       \* the request: its endpoint, its offsets, its input
    temp_file,          \* the temporary file of the request
    result,             \* what process_image returned to the handler
    http_response,      \* the response: its status and its body
    api_keys,           \* the table api_keys: its rows by key
    now,                \* datetime.now(), in days
    key_pc,             \* where the request to the key service stands
    key_request,        \* that request: its kind and what it carries
    api_key,            \* the local of verify_api_key: the row it read
    is_valid,           \* what verify_api_key returned
    key_response,       \* the response to the request
    heap,               \* the objects of response.json(), by address
    calls,              \* the locals of the process_image calls in progress
    verifiers,          \* the verify_api_key calls of the worker processes
    granted             \* how many of them have returned True

pipeline_vars == << pc, args, captcha_offset_x, captcha_offset_y, retry_count,
                    posts, outcome, results, output >>

convert_vars == << conv_call, conv_result >>

http_vars == << http_pc, http_request, temp_file, result, http_response >>

key_vars == << api_keys, now, key_pc, key_request, api_key, is_valid,
              key_response >>

concurrent_vars == << heap, calls >>

race_vars == << verifiers, granted >>

vars == << pipeline_vars, convert_vars, http_vars, key_vars, concurrent_vars,
           race_vars >>

\* what a step of process_image leaves alone
outside_pipeline == << convert_vars, http_vars, key_vars, concurrent_vars,
                        race_vars >>

\* what a direct convert_coordinates call leaves alone
outside_convert == << pipeline_vars, http_vars, key_vars, concurrent_vars,
                       race_vars >>

\* what a step of an endpoint's handler leaves alone
outside_http == << pipeline_vars, convert_vars, key_vars, concurrent_vars,
                    race_vars >>

\* what a step of the key service leaves alone
outside_keys == << pipeline_vars, convert_vars, http_vars, concurrent_vars,
                    race_vars >>

\* what a step of one of the concurrent process_image calls leaves alone
outside_concurrent == << pipeline_vars, convert_vars, http_vars, key_vars,
                         race_vars >>

\* what a step of a verify_api_key call of a worker process leaves alone,
\* the table api_keys and the clock apart
outside_race == << pipeline_vars, convert_vars, http_vars, concurrent_vars,
                   key_pc, key_request, api_key, is_valid, key_response >>

\* the worker processes of the server whose calls meet
Workers == {1, 2}

\* the process_image calls that run at the same time
Invocations == {1, 2}

NoCall == [image_coord |-> <<0, 0>>, image_size |-> <<0, 0>>,
           captcha_offset |-> <<0, 0>>]

Idle ==
    /\ pc = "idle"
    /\ args = << >>
    /\ captcha_offset_x = 0
    /\ captcha_offset_y = 0
    /\ retry_count = 0
    /\ posts = 0
    /\ outcome = "none"
    /\ results = [json |-> "none"]
    /\ output = << >>

ConvertIdle ==
    /\ conv_call = NoCall
    /\ conv_result = [kind |-> "none"]

NoRequest == [endpoint |-> "none"]

NoResponse == [status |-> 0]

HttpIdle ==
    /\ http_pc = "idle"
    /\ http_request = NoRequest
    /\ temp_file = "none"
    /\ result = << >>
    /\ http_response = NoResponse

KeyIdle ==
    /\ key_pc = "idle"
    /\ key_request = [kind |-> "none"]
    /\ api_key = << >>
    /\ is_valid = FALSE
    /\ key_response = NoResponse

Init ==
    /\ Idle
    /\ ConvertIdle
    /\ HttpIdle
    /\ KeyIdle
    /\ api_keys = << >>
    /\ now = 0
    /\ heap = << >>
    /\ calls = [i \in Invocations |-> [pc |-> "idle"]]
    /\ verifiers = [w \in Workers |-> [pc |-> "idle"]]
    /\ granted = 0

(***************************************************************************)
(* process_image, one call at a time                                       *)
(***************************************************************************)
\* a defaulting that replaces both offsets when either is absent
DefaultedOffsetJoint(arguments, name, default) ==
    IF DOMAIN arguments = {"captcha_offset_x", "captcha_offset_y"}
    THEN arguments[name] ELSE default

\* lines 202-205: an offset that is None gets the layout constant
DefaultedOffset(arguments, name, default) == Get(arguments, name, default)

\* lines 199-205: the call, and the defaulting of the offsets
Call ==
    /\ pc = "idle"
    /\ conv_result.kind = "none"
    /\ pc' = "load_image"
    /\ \E i \in 1..Len(CallArguments) :
          /\ args' = CallArguments[i]
          /\ captcha_offset_x' =
                DefaultedOffset(CallArguments[i], "captcha_offset_x", CAPTCHA_IMAGE_X)
          /\ captcha_offset_y' =
                DefaultedOffset(CallArguments[i], "captcha_offset_y", CAPTCHA_IMAGE_Y)
    /\ UNCHANGED << retry_count, posts, outcome, results, output >>
    /\ UNCHANGED outside_pipeline

\* an exception that no except clause catches
FailUncaught(message) ==
    /\ pc' = "done"
    /\ retry_count' = 0
    /\ output' = [raised |-> message]
    /\ UNCHANGED << args, captcha_offset_x, captcha_offset_y, results >>
    /\ UNCHANGED outside_pipeline

\* an exception reaches the except clause of lines 395-407
Fail(message) ==
    /\ pc' = "done"
    /\ retry_count' = 0
    /\ output' = error_output(message)
    /\ UNCHANGED << args, captcha_offset_x, captcha_offset_y, results >>
    /\ UNCHANGED outside_pipeline

\* line 208: load_image opens the image
LoadImageOk ==
    /\ pc = "load_image"
    /\ pc' = "encode"
    /\ UNCHANGED << args, captcha_offset_x, captcha_offset_y, retry_count,
                    posts, outcome, results, output >>
    /\ UNCHANGED outside_pipeline

\* line 208: load_image raises (the file is not an image, or the URL
\* answers with a status other than 200)
LoadImageFail ==
    /\ pc = "load_image"
    /\ Fail("cannot identify image file")
    /\ UNCHANGED << posts, outcome >>

\* lines 153-162: the image is re-encoded as JPEG and the retry loop set up
EncodeOk ==
    /\ pc = "encode"
    /\ pc' = "post"
    /\ retry_count' = 0
    /\ UNCHANGED << args, captcha_offset_x, captcha_offset_y, posts, outcome,
                    results, output >>
    /\ UNCHANGED outside_pipeline

\* lines 153-158 raise; lines 195-197 wrap the exception
EncodeFail ==
    /\ pc = "encode"
    /\ Fail("Loi khi xu ly file anh: cannot read image")
    /\ UNCHANGED << posts, outcome >>

\* lines 166-176: one more requests.post, which ends as kind
Post(kind) ==
    /\ posts' = posts + 1
    /\ outcome' = kind

\* lines 164-180: an attempt answered with status 200; the call returns
\* the JSON
Return200(json) ==
    /\ pc' = "assemble"
    /\ results' = json
    /\ retry_count' = 0
    /\ posts' = 0
    /\ outcome' = "200"
    /\ UNCHANGED << args, captcha_offset_x, captcha_offset_y, output >>
    /\ UNCHANGED outside_pipeline

\* status 200 and a JSON object with a predictions list
Post200 ==
    /\ pc = "post"
    /\ retry_count < max_retries
    /\ \E im \in 1..Len(ImageParts), g \in 1..Len(Geometries),
          ch \in LabelLists \cup PairedLists :
          Return200([json |-> "object", value |-> DetectorObject(im, g, ch)])

\* status 200 and a JSON object without a predictions list
Post200NoPredictions ==
    /\ pc = "post"
    /\ retry_count < max_retries
    /\ \E im \in 1..Len(ImageParts) :
          Return200([json |-> "object", value |-> ImageParts[im]])

\* lines 164-180: status 200 with a JSON body that is not an object
Post200NotObject ==
    /\ pc = "post"
    /\ retry_count < max_retries
    /\ Return200([json |-> "array"])

\* line 180 and lines 191-197: status 200 with a body that is not JSON;
\* response.json() raises requests' JSONDecodeError, a RequestException
Post200InvalidJson ==
    /\ pc = "post"
    /\ retry_count < max_retries
    /\ Post("200_invalid_json")
    /\ Fail("Loi khi xu ly file anh: Loi ket noi: Expecting value")

\* a non-200 status that is answered by one more attempt
PostNon200Retried ==
    /\ pc = "post"
    /\ retry_count < max_retries
    /\ Post("non200")
    /\ UNCHANGED << pc, args, captcha_offset_x, captcha_offset_y, retry_count,
                    results, output >>
    /\ UNCHANGED outside_pipeline

\* lines 181-183 and 195-197: a status other than 200
PostNon200 ==
    /\ pc = "post"
    /\ retry_count < max_retries
    /\ Post("non200")
    /\ Fail("Loi khi xu ly file anh: Loi API Roboflow")

\* a timeout that is retried without being counted
PostTimeoutUncounted ==
    /\ pc = "post"
    /\ retry_count < max_retries
    /\ Post("timeout")
    /\ UNCHANGED << pc, args, captcha_offset_x, captcha_offset_y, retry_count,
                    results, output >>
    /\ UNCHANGED outside_pipeline

\* lines 185-189 and 195-197: a timeout; the attempt is repeated unless it
\* was the last one
PostTimeout ==
    /\ pc = "post"
    /\ retry_count < max_retries
    /\ Post("timeout")
    /\ IF retry_count + 1 >= max_retries
       THEN Fail("Loi khi xu ly file anh: Khong the ket noi den Roboflow API sau nhieu lan thu")
       ELSE /\ retry_count' = retry_count + 1
            /\ UNCHANGED << pc, args, captcha_offset_x, captcha_offset_y,
                            results, output >>
            /\ UNCHANGED outside_pipeline

\* lines 191-193 and 195-197: another request error
PostRequestError ==
    /\ pc = "post"
    /\ retry_count < max_retries
    /\ Post("request_error")
    /\ Fail("Loi khi xu ly file anh: Loi ket noi")

\* lines 213-393 (and 395-407 when they raise)
Assemble ==
    /\ pc = "assemble"
    /\ pc' = "done"
    /\ output' = assemble(results, captcha_offset_x, captcha_offset_y)
    /\ UNCHANGED << args, captcha_offset_x, captcha_offset_y, retry_count,
                    posts, outcome, results >>
    /\ UNCHANGED outside_pipeline

\* the caller has the returned value; the locals are gone
Return ==
    /\ pc = "done"
    /\ pc' = "idle"
    /\ args' = << >>
    /\ captcha_offset_x' = 0
    /\ captcha_offset_y' = 0
    /\ retry_count' = 0
    /\ posts' = 0
    /\ outcome' = "none"
    /\ results' = [json |-> "none"]
    /\ output' = << >>
    /\ UNCHANGED outside_pipeline

(***************************************************************************)
(* convert_coordinates called directly, while no process_image call runs   *)
(***************************************************************************)
\* lines 108-133: a call that returns
ConvertReturn ==
    /\ pc = "idle"
    /\ conv_result.kind = "none"
    /\ \E c \in Coordinates \X Coordinates, sz \in ImageSizes, off \in Offsets :
          /\ ~ConvertRaises(sz)
          /\ conv_call' = [image_coord |-> c, image_size |-> sz,
                           captcha_offset |-> off]
          /\ conv_result' = [kind |-> "return",
                             value |-> convert_coordinates(c, sz, off)]
    /\ UNCHANGED outside_convert

\* lines 118-119: a call that raises
ConvertRaise ==
    /\ pc = "idle"
    /\ conv_result.kind = "none"
    /\ \E c \in Coordinates \X Coordinates, sz \in ImageSizes, off \in Offsets :
          /\ ConvertRaises(sz)
          /\ conv_call' = [image_coord |-> c, image_size |-> sz,
                           captcha_offset |-> off]
          /\ conv_result' = [kind |-> "raise", error |-> "division by zero"]
    /\ UNCHANGED outside_convert

\* the caller has the outcome
ConvertDone ==
    /\ conv_result.kind # "none"
    /\ conv_call' = NoCall
    /\ conv_result' = [kind |-> "none"]
    /\ UNCHANGED outside_convert

Next ==
    \/ Call
    \/ LoadImageOk
    \/ LoadImageFail
    \/ EncodeOk
    \/ EncodeFail
    \/ Post200
    \/ Post200NoPredictions
    \/ Post200NotObject
    \/ Post200InvalidJson
    \/ PostNon200
    \/ PostTimeout
    \/ PostRequestError
    \/ Assemble
    \/ Return
    \/ ConvertReturn
    \/ ConvertRaise
    \/ ConvertDone

Spec == Init /\ [][Next]_vars

(***************************************************************************)
(* The endpoints /process, /process_url, /process_base64 and               *)
(* /process_base64_json, one request at a time.  The handler's call of     *)
(* process_image is one step, its value computed by the operators above.   *)
(***************************************************************************)
\* what an endpoint may be sent: an uploaded file; a URL by what a GET of it
\* gives; a base64 field by its content type and what it holds
EndpointInputs ==
    << [endpoint |-> "/process", image |-> "image"],
       [endpoint |-> "/process", image |-> "not_image"],
       [endpoint |-> "/process_url", get |-> "200", image |-> "image"],
       [endpoint |-> "/process_url", get |-> "200", image |-> "not_image"],
       [endpoint |-> "/process_url", get |-> "404"],
       [endpoint |-> "/process_url", get |-> "unreachable"],
       [endpoint |-> "/process_base64", content_type |-> "json", body |-> "invalid_json"],
       [endpoint |-> "/process_base64", content_type |-> "json", body |-> "no_image_base64"],
       [endpoint |-> "/process_base64", content_type |-> "json", body |-> "undecodable"],
       [endpoint |-> "/process_base64", content_type |-> "json", body |-> "base64", image |-> "image"],
       [endpoint |-> "/process_base64", content_type |-> "json", body |-> "base64", image |-> "not_image"],
       [endpoint |-> "/process_base64", content_type |-> "form", body |-> "no_image_base64"],
       [endpoint |-> "/process_base64", content_type |-> "form", body |-> "undecodable"],
       [endpoint |-> "/process_base64", content_type |-> "form", body |-> "base64", image |-> "image"],
       [endpoint |-> "/process_base64", content_type |-> "form", body |-> "base64", image |-> "not_image"],
       [endpoint |-> "/process_base64_json", body |-> "undecodable"],
       [endpoint |-> "/process_base64_json", body |-> "base64", image |-> "image"],
       [endpoint |-> "/process_base64_json", body |-> "base64", image |-> "not_image"] >>

\* how the detector call of a request ends: the outcomes of the retry loop,
\* or status 200 with an array, with an object that has no image, with an
\* image and no detection, with an image and two detections of one label
DetectorOutcomes ==
    << [kind |-> "non200"],
       [kind |-> "timeout"],
       [kind |-> "request_error"],
       [kind |-> "200", json |-> [json |-> "array"]],
       [kind |-> "200", json |-> [json |-> "object",
                                  value |-> DetectorObject(1, 1, << <<2, 2>> >>)]],
       [kind |-> "200", json |-> [json |-> "object",
                                  value |-> DetectorObject(4, 1, << >>)]],
       [kind |-> "200", json |-> [json |-> "object",
                                  value |-> DetectorObject(4, 2, << <<2, 2>>, <<2, 3>> >>)]] >>

\* lines 164-197: the message analyze_image_with_roboflow raises
DetectorMessage(kind) ==
    IF kind = "non200" THEN "Loi khi xu ly file anh: Loi API Roboflow"
    ELSE IF kind = "timeout"
    THEN "Loi khi xu ly file anh: Khong the ket noi den Roboflow API sau nhieu lan thu"
    ELSE "Loi khi xu ly file anh: Loi ket noi"

\* lines 199-407: what process_image returns for a temporary file holding
\* image, a detector call that ends as detector, and the offsets passed
process_image(image, detector, arguments) ==
    IF image # "image" THEN error_output("cannot identify image file")
    ELSE IF detector.kind # "200" THEN error_output(DetectorMessage(detector.kind))
    ELSE assemble(detector.json,
                  DefaultedOffset(arguments, "captcha_offset_x", CAPTCHA_IMAGE_X),
                  DefaultedOffset(arguments, "captcha_offset_y", CAPTCHA_IMAGE_Y))

\* the body of the JSONResponse an except clause of a handler builds
error_content(message, details) ==
    [ error                |-> message,
      details              |-> details,
      duplicate_characters |-> << >>,
      duplicates           |-> << >>,
      all_predictions      |-> << >> ]

\* the request arrives
Receive ==
    /\ http_pc = "idle"
    /\ pc = "idle"
    /\ conv_result.kind = "none"
    /\ \E i \in 1..Len(EndpointInputs), a \in 1..Len(CallArguments) :
          http_request' = [input |-> EndpointInputs[i], offsets |-> CallArguments[a]]
                              @@ [endpoint |-> EndpointInputs[i].endpoint]
    /\ http_pc' = "received"
    /\ UNCHANGED << temp_file, result, http_response >>
    /\ UNCHANGED outside_http

\* the handler has the bytes and writes them to a temporary file
\* (lines 431-433, 476-478, 558-560, 624-626)
WriteTemp ==
    /\ http_pc' = "temp"
    /\ temp_file' = "exists"
    /\ UNCHANGED << http_request, result, http_response >>
    /\ UNCHANGED outside_http

\* an except clause answers with a JSONResponse
Respond(status, content) ==
    /\ http_pc' = "responded"
    /\ http_response' = [status |-> status, body |-> content]
    /\ UNCHANGED << http_request, temp_file, result >>
    /\ UNCHANGED outside_http

\* /process, lines 431-433
Upload ==
    /\ http_pc = "received"
    /\ http_request.endpoint = "/process"
    /\ WriteTemp

\* /process_url, lines 471-478 and 488-502: the GET raises, or answers with
\* a status other than 200 (the HTTPException of line 473 is caught by
\* line 488), or gives the bytes
FetchUrl ==
    /\ http_pc = "received"
    /\ http_request.endpoint = "/process_url"
    /\ IF http_request.input.get = "unreachable"
       THEN Respond(500, error_content("ConnectionError",
                                       "Loi trong qua trinh xu ly anh tu URL"))
       ELSE IF http_request.input.get # "200"
       THEN Respond(500, error_content("400: Khong the tai anh tu URL",
                                       "Loi trong qua trinh xu ly anh tu URL"))
       ELSE WriteTemp

\* /process_base64, lines 509-560 and 570-584: the HTTPExceptions of lines
\* 519, 542 and 555 are answered with their own status
ParseBase64 ==
    /\ http_pc = "received"
    /\ http_request.endpoint = "/process_base64"
    /\ IF http_request.input.body = "invalid_json"
       THEN Respond(400, error_content("Loi khi doc du lieu JSON",
                                       "Loi trong qua trinh xu ly request"))
       ELSE IF http_request.input.body = "no_image_base64"
       THEN Respond(422, error_content("Missing required field: image_base64",
                                       "Loi trong qua trinh xu ly request"))
       ELSE IF http_request.input.body = "undecodable"
       THEN Respond(400, error_content("Khong the giai ma base64",
                                       "Loi trong qua trinh xu ly request"))
       ELSE WriteTemp

\* /process_base64_json, lines 606-626 and 636-650: the HTTPException of
\* line 621 is caught by line 636
DecodeBase64Json ==
    /\ http_pc = "received"
    /\ http_request.endpoint = "/process_base64_json"
    /\ IF http_request.input.body = "undecodable"
       THEN Respond(500, error_content("400: Khong the giai ma base64",
                                       "Loi trong qua trinh xu ly anh tu base64"))
       ELSE WriteTemp

\* lines 436, 481, 563, 629: the handler calls process_image
ProcessImage ==
    /\ http_pc = "temp"
    /\ http_pc' = "processed"
    /\ \E d \in 1..Len(DetectorOutcomes) :
          result' = process_image(http_request.input.image, DetectorOutcomes[d],
                                  http_request.offsets)
    /\ UNCHANGED << http_request, temp_file, http_response >>
    /\ UNCHANGED outside_http

\* a handler that goes on without os.unlink
UnlinkSkipped ==
    /\ http_pc = "processed"
    /\ http_pc' = "unlinked"
    /\ UNCHANGED << http_request, temp_file, result, http_response >>
    /\ UNCHANGED outside_http

\* lines 439, 484, 566, 632: os.unlink
Unlink ==
    /\ http_pc = "processed"
    /\ http_pc' = "unlinked"
    /\ temp_file' = "deleted"
    /\ UNCHANGED << http_request, result, http_response >>
    /\ UNCHANGED outside_http

\* lines 441, 486, 568, 634: return result, which FastAPI sends as the
\* body of a response with status 200
ReturnResult ==
    /\ http_pc = "unlinked"
    /\ http_pc' = "responded"
    /\ http_response' = [status |-> 200, body |-> result]
    /\ UNCHANGED << http_request, temp_file, result >>
    /\ UNCHANGED outside_http

\* the client has the response; a temporary file that exists stays
Finish ==
    /\ http_pc = "responded"
    /\ http_pc' = "idle"
    /\ http_request' = NoRequest
    /\ temp_file' = IF temp_file = "exists" THEN "exists" ELSE "none"
    /\ result' = << >>
    /\ http_response' = NoResponse
    /\ UNCHANGED outside_http

NextHttp ==
    \/ Receive
    \/ Upload
    \/ FetchUrl
    \/ ParseBase64
    \/ DecodeBase64Json
    \/ ProcessImage
    \/ Unlink
    \/ ReturnResult
    \/ Finish

SpecHttp == Init /\ [][NextHttp]_vars

(***************************************************************************)
(* apikey_manager.py: the table api_keys, the dependency get_api_key of    *)
(* the /secure routes and the admin endpoints, one request at a time.      *)
(* A value that may be None is a sequence: << >> is None, <<v>> is v.      *)
(***************************************************************************)
\* the last day the clock reaches
MaxNow == 2

\* the usage_count up to which a key without a limit is verified
MaxUses == 2

\* the keys secrets.token_urlsafe gives, in the order it gives them
Keys == << "k1", "k2" >>

\* the key_data of a create_api_key call
KeyOptions ==
    << [expires_in_days |-> 0, usage_limit |-> -1],
       [expires_in_days |-> 1, usage_limit |-> 2],
       [expires_in_days |-> -1, usage_limit |-> 1],
       [expires_in_days |-> 1, usage_limit |-> 0] >>

\* what the X-API-Key header or query parameter of a request may hold
SentKeys == { << >>, <<"">>, <<"k1">>, <<"k2">>, <<"zz">> }

\* the keys an admin names in DELETE /api/keys/{key}
NamedKeys == { "k1", "k2", "zz" }

\* bool(v) of a string or None
Truthy(v) == v # << >> /\ v # <<"">>

\* an expiry also for expires_in_days = 0
expires_at_of_nonnegative(created_at, expires_in_days) ==
    IF expires_in_days >= 0 THEN << created_at + expires_in_days >> ELSE << >>

\* create_api_key, lines 66-69: expires_at
expires_at_of(created_at, expires_in_days) ==
    IF expires_in_days > 0 THEN << created_at + expires_in_days >> ELSE << >>

\* create_api_key, lines 74-87: the row inserted (expires_in_days is kept
\* to tell how the key was created; the table has no such column)
new_row(key_data, created_at) ==
    [ is_active       |-> TRUE,
      expires_at      |-> expires_at_of(created_at, key_data.expires_in_days),
      usage_count     |-> 0,
      usage_limit     |-> key_data.usage_limit,
      expires_in_days |-> key_data.expires_in_days ]

\* line 63: a key that no row has
fresh_key(table) ==
    Keys[CHOOSE i \in 1..Len(Keys) :
            Keys[i] \notin DOMAIN table /\ \A j \in 1..(i - 1) : Keys[j] \in DOMAIN table]

\* APIKeyManager.get_api_key, lines 103-130: the row of key, or None
get_api_key(table, key) ==
    IF key \in DOMAIN table THEN << table[key] >> ELSE << >>

\* increment_usage, lines 157-167
increment_usage(table, key) ==
    IF key \in DOMAIN table
    THEN [table EXCEPT ![key].usage_count = @ + 1]
    ELSE table

\* the UPDATE of deactivate_api_key, lines 173-176
deactivate(table, key) ==
    IF key \in DOMAIN table
    THEN [table EXCEPT ![key].is_active = FALSE]
    ELSE table

\* the number of rows the UPDATE changed from active to inactive
rows_deactivated(table, key) ==
    IF key \in DOMAIN table /\ table[key].is_active THEN 1 ELSE 0

\* cursor.rowcount of line 178: the rows the WHERE clause matched
rows_affected(table, key) == IF key \in DOMAIN table THEN 1 ELSE 0

\* the key taken from the query before the header
presented_key_query_first(header, query) ==
    IF Truthy(query) THEN query ELSE header

\* get_api_key, line 231: api_key_header or api_key_query
presented_key(header, query) ==
    IF Truthy(header) THEN header ELSE query

\* the admin_key of a request is the configured one (lines 250-252)
AdminChoices == BOOLEAN

\* time passes
Tick ==
    /\ now < MaxNow
    /\ now' = now + 1
    /\ UNCHANGED << api_keys, key_pc, key_request, api_key, is_valid,
                    key_response >>
    /\ UNCHANGED outside_keys

\* every row, whatever active_only says
list_api_keys_all(table, active_only) == DOMAIN table

\* list_api_keys, lines 189-195: the keys of the rows selected
list_api_keys(table, active_only) ==
    {k \in DOMAIN table : active_only => table[k].is_active}

\* the key service answers; keys are the keys in the body of the response
KeyRespond(status, keys) ==
    /\ key_pc' = "responded"
    /\ key_response' = [status |-> status, keys |-> keys]

\* POST /api/keys, lines 247-258 and 61-101
PostKeys ==
    /\ key_pc = "idle"
    /\ \E i \in 1..Len(Keys) : Keys[i] \notin DOMAIN api_keys
    /\ \E admin \in AdminChoices, o \in 1..Len(KeyOptions) :
          /\ key_request' = [kind |-> "create", admin |-> admin,
                             key_data |-> KeyOptions[o]]
          /\ IF admin
             THEN /\ api_keys' = (fresh_key(api_keys) :> new_row(KeyOptions[o], now))
                                    @@ api_keys
                  /\ KeyRespond(200, {fresh_key(api_keys)})
             ELSE /\ UNCHANGED api_keys
                  /\ KeyRespond(403, {})
    /\ UNCHANGED << now, api_key, is_valid >>
    /\ UNCHANGED outside_keys

\* GET /api/keys, lines 261-271 and 184-215
ListKeys ==
    /\ key_pc = "idle"
    /\ \E admin \in AdminChoices, active_only \in BOOLEAN :
          /\ key_request' = [kind |-> "list", admin |-> admin,
                             active_only |-> active_only]
          /\ IF admin
             THEN KeyRespond(200, list_api_keys(api_keys, active_only))
             ELSE KeyRespond(403, {})
    /\ UNCHANGED << api_keys, now, api_key, is_valid >>
    /\ UNCHANGED outside_keys

\* DELETE /api/keys/{key} without the test of the admin key
DeleteKeyUnchecked ==
    /\ key_pc = "idle"
    /\ \E admin \in AdminChoices, key \in NamedKeys :
          /\ key_request' = [kind |-> "delete", admin |-> admin, key |-> key,
                             again |-> key \in DOMAIN api_keys /\ ~api_keys[key].is_active]
          /\ api_keys' = deactivate(api_keys, key)
          /\ IF rows_affected(api_keys, key) > 0
             THEN KeyRespond(200, {})
             ELSE KeyRespond(404, {})
    /\ UNCHANGED << now, api_key, is_valid >>
    /\ UNCHANGED outside_keys

\* DELETE /api/keys/{key}, lines 273-290 and 169-182 (again is kept to tell
\* that the row was inactive before)
DeleteKey ==
    /\ key_pc = "idle"
    /\ \E admin \in AdminChoices, key \in NamedKeys :
          /\ key_request' = [kind |-> "delete", admin |-> admin, key |-> key,
                             again |-> key \in DOMAIN api_keys /\ ~api_keys[key].is_active]
          /\ IF ~admin
             THEN /\ UNCHANGED api_keys
                  /\ KeyRespond(403, {})
             ELSE /\ api_keys' = deactivate(api_keys, key)
                  /\ IF rows_affected(api_keys, key) > 0
                     THEN KeyRespond(200, {})
                     ELSE KeyRespond(404, {})
    /\ UNCHANGED << now, api_key, is_valid >>
    /\ UNCHANGED outside_keys

\* a request to a /secure route; get_api_key, lines 226-233 and 240-243
SecureRequest ==
    /\ key_pc = "idle"
    /\ \A k \in DOMAIN api_keys :
          api_keys[k].usage_limit > 0 \/ api_keys[k].usage_count < MaxUses
    /\ \E header \in SentKeys, query \in SentKeys :
          /\ key_request' = [kind |-> "secure", header |-> header, query |-> query,
                             key |-> presented_key(header, query)]
          /\ IF Truthy(presented_key(header, query))
             THEN /\ key_pc' = "verify"
                  /\ UNCHANGED key_response
             ELSE /\ key_pc' = "responded"
                  /\ key_response' = [status |-> 403, handler |-> FALSE]
    /\ UNCHANGED << api_keys, now, api_key, is_valid >>
    /\ UNCHANGED outside_keys

\* verify_api_key, line 133
VerifyRead ==
    /\ key_pc = "verify"
    /\ key_pc' = "read"
    /\ api_key' = get_api_key(api_keys, key_request.key[1])
    /\ UNCHANGED << api_keys, now, key_request, is_valid, key_response >>
    /\ UNCHANGED outside_keys

\* verify_api_key returns value, the table being table then
VerifyReturn(value, table) ==
    /\ key_pc' = "verified"
    /\ is_valid' = value
    /\ api_keys' = table
    /\ key_request' = [checked_at |-> now] @@ key_request

\* a limit that lets one more use through
limit_reached_late(row) ==
    row.usage_limit > 0 /\ row.usage_count > row.usage_limit

\* verify_api_key, line 150: the usage limit is reached
limit_reached(row) ==
    row.usage_limit > 0 /\ row.usage_count >= row.usage_limit

\* verify_api_key, lines 135-155
VerifyDecide ==
    /\ key_pc = "read"
    /\ IF api_key = << >> THEN VerifyReturn(FALSE, api_keys)
       ELSE IF ~api_key[1].is_active THEN VerifyReturn(FALSE, api_keys)
       ELSE IF api_key[1].expires_at # << >> /\ now > api_key[1].expires_at[1]
       THEN VerifyReturn(FALSE, deactivate(api_keys, key_request.key[1]))
       ELSE IF limit_reached(api_key[1])
       THEN VerifyReturn(FALSE, api_keys)
       ELSE VerifyReturn(TRUE, increment_usage(api_keys, key_request.key[1]))
    /\ UNCHANGED << now, api_key, key_response >>
    /\ UNCHANGED outside_keys

\* get_api_key, lines 236-243, and the route's handler (main.py, lines
\* 653-679), which runs when the dependency returned
SecureRespond ==
    /\ key_pc = "verified"
    /\ key_pc' = "responded"
    /\ key_response' = IF is_valid THEN [status |-> 200, handler |-> TRUE]
                       ELSE [status |-> 403, handler |-> FALSE]
    /\ UNCHANGED << api_keys, now, key_request, api_key, is_valid >>
    /\ UNCHANGED outside_keys

\* the client has the response
KeyDone ==
    /\ key_pc = "responded"
    /\ key_pc' = "idle"
    /\ key_request' = [kind |-> "none"]
    /\ api_key' = << >>
    /\ is_valid' = FALSE
    /\ key_response' = NoResponse
    /\ UNCHANGED << api_keys, now >>
    /\ UNCHANGED outside_keys

NextKeys ==
    \/ Tick
    \/ PostKeys
    \/ ListKeys
    \/ DeleteKey
    \/ SecureRequest
    \/ VerifyRead
    \/ VerifyDecide
    \/ SecureRespond
    \/ KeyDone

SpecKeys == Init /\ [][NextKeys]_vars

(***************************************************************************)
(* process_image called by requests served at the same time.  Every dict   *)
(* response.json() builds is an object at an address of the heap, and the  *)
(* predictions list of the results holds the addresses of its dicts; a     *)
(* step is one statement, or one turn of the loop of lines 229-234.        *)
(***************************************************************************)
\* the JSON objects the detector answers the concurrent calls with: two
\* detections, the better one with a class; one detection without class and
\* confidence; one detection and no image; four detections in two classes
ConcurrentResponses ==
    << DetectorObject(4, 2, << <<1, 2>>, <<2, 3>> >>),
       DetectorObject(4, 1, << <<1, 1>> >>),
       DetectorObject(1, 1, << <<2, 2>> >>),
       DetectorObject(4, 2, << <<2, 2>>, <<1, 2>>, <<2, 3>>, <<3, 2>> >>) >>

\* the addresses of the heap: room for the results and the predictions of
\* every call
Addresses ==
    1..(Cardinality(Invocations) *
          (1 + Len(ConcurrentResponses[
                 CHOOSE r \in 1..Len(ConcurrentResponses) :
                     \A q \in 1..Len(ConcurrentResponses) :
                         Len(ConcurrentResponses[q].predictions)
                             <= Len(ConcurrentResponses[r].predictions)].predictions)))

\* the addresses of one cached response, whatever is in use
cached_addresses(used, n) == [k \in 1..n |-> k]

\* the addresses of n new objects: none of them is in use
fresh_addresses(used, n) ==
    [k \in 1..n |->
        CHOOSE a \in Addresses \ used :
            Cardinality({b \in Addresses \ used : b < a}) = k - 1]

\* line 180, response.json(): the heap with the results dict at at[1] and
\* its predictions behind it
allocate(h, at, response) ==
    [a \in DOMAIN h \cup {at[k] : k \in 1..Len(at)} |->
        IF a = at[1] THEN [response EXCEPT !.predictions = Tail(at)]
        ELSE IF \E k \in 2..Len(at) : at[k] = a
        THEN response.predictions[(CHOOSE k \in 2..Len(at) : at[k] = a) - 1]
        ELSE h[a]]

\* the objects a call holds: its results and their predictions
Owned(h, call) ==
    IF call.pc = "idle" THEN {}
    ELSE {call.results} \cup
         {Get(h[call.results], "predictions", << >>)[k] :
             k \in 1..Len(Get(h[call.results], "predictions", << >>))}

\* the dicts at the addresses at
Deref(h, at) == [k \in 1..Len(at) |-> h[at[k]]]

\* lines 220-224: sorted() over the list at, a new list of the same dicts
sorted_addresses(h, at) ==
    [k \in 1..Len(at) |->
        sorted_by_confidence(
            [j \in 1..Len(at) |-> [address |-> at[j]] @@ h[at[j]]])[k].address]

\* lines 199-211 and 147-180: the call starts, the detector answers 200 and
\* response.json() builds the results
ConcurrentAnalyze(i) ==
    /\ calls[i].pc = "idle"
    /\ \E a \in 1..Len(CallArguments), r \in 1..Len(ConcurrentResponses) :
          /\ heap' = allocate(heap,
                              fresh_addresses(DOMAIN heap,
                                  Len(ConcurrentResponses[r].predictions) + 1),
                              ConcurrentResponses[r])
          /\ calls' = [calls EXCEPT ![i] =
                [ pc               |-> "ensure",
                  arguments        |-> CallArguments[a],
                  captcha_offset_x |-> DefaultedOffset(CallArguments[a],
                                           "captcha_offset_x", CAPTCHA_IMAGE_X),
                  captcha_offset_y |-> DefaultedOffset(CallArguments[a],
                                           "captcha_offset_y", CAPTCHA_IMAGE_Y),
                  response         |-> ConcurrentResponses[r],
                  results          |-> fresh_addresses(DOMAIN heap, 1)[1] ]]
    /\ UNCHANGED outside_concurrent

\* lines 214-217, on the results dict itself
ConcurrentEnsure(i) ==
    /\ calls[i].pc = "ensure"
    /\ heap' = [heap EXCEPT ![calls[i].results] = ensure_fields(@)]
    /\ calls' = [calls EXCEPT ![i].pc = "sort"]
    /\ UNCHANGED outside_concurrent

\* lines 220-227
ConcurrentSort(i) ==
    /\ calls[i].pc = "sort"
    /\ calls' = [calls EXCEPT ![i] =
          [sorted_predictions |->
               sorted_addresses(heap, heap[calls[i].results].predictions),
           n |-> 1] @@ [calls[i] EXCEPT !.pc = "group"]]
    /\ UNCHANGED heap
    /\ UNCHANGED outside_concurrent

\* lines 229-234, one turn: the class is written into the dict itself
ConcurrentDefaultClass(i) ==
    /\ calls[i].pc = "group"
    /\ calls[i].n <= Len(calls[i].sorted_predictions)
    /\ heap' = [heap EXCEPT ![calls[i].sorted_predictions[calls[i].n]] =
                                default_class(@)]
    /\ calls' = [calls EXCEPT ![i].n = @ + 1]
    /\ UNCHANGED outside_concurrent

\* lines 236-393 for the call i: the envelope, from the dicts as they are now
Assembled(i) ==
    assemble_sorted([heap[calls[i].results] EXCEPT !.predictions = Deref(heap, @)],
                    Deref(heap, calls[i].sorted_predictions),
                    calls[i].captcha_offset_x,
                    calls[i].captcha_offset_y)

\* the call i has its output
ConcurrentOutput(i, enhanced_output) ==
    /\ calls[i].pc = "group"
    /\ calls[i].n > Len(calls[i].sorted_predictions)
    /\ calls' = [calls EXCEPT ![i] =
          [output |-> enhanced_output] @@ [calls[i] EXCEPT !.pc = "done"]]
    /\ UNCHANGED heap
    /\ UNCHANGED outside_concurrent

\* the classes kept in a set: they come in the order of the hash seed of
\* the worker process that runs the call
ConcurrentAssembleSeeded(i) ==
    ConcurrentOutput(i, [Assembled(i) EXCEPT
        !.duplicate_characters = IF i = 1 THEN @ ELSE Reverse(@)])

\* lines 236-407: the envelope
ConcurrentAssemble(i) == ConcurrentOutput(i, Assembled(i))

\* the call returns and nothing refers to its results any more
ConcurrentReturn(i) ==
    /\ calls[i].pc = "done"
    /\ heap' = [a \in DOMAIN heap \ Owned(heap, calls[i]) |-> heap[a]]
    /\ calls' = [calls EXCEPT ![i] = [pc |-> "idle"]]
    /\ UNCHANGED outside_concurrent

NextConcurrent ==
    \E i \in Invocations :
        \/ ConcurrentAnalyze(i)
        \/ ConcurrentEnsure(i)
        \/ ConcurrentSort(i)
        \/ ConcurrentDefaultClass(i)
        \/ ConcurrentAssemble(i)
        \/ ConcurrentReturn(i)

SpecConcurrent == Init /\ [][NextConcurrent]_vars

(***************************************************************************)
(* verify_api_key called by the worker processes of the server at the same *)
(* time, for the first key issued.  Every call opens its own connections:  *)
(* the SELECT of get_api_key and the UPDATE of increment_usage or of       *)
(* deactivate_api_key are separate statements, each one atomic.            *)
(***************************************************************************)
\* create_api_key, lines 61-101, for the first key
IssueKey ==
    /\ api_keys = << >>
    /\ \E o \in 1..Len(KeyOptions) :
          api_keys' = (fresh_key(api_keys) :> new_row(KeyOptions[o], now)) @@ api_keys
    /\ UNCHANGED << now, verifiers, granted >>
    /\ UNCHANGED outside_race

\* the clock of the workers
RaceTick ==
    /\ now < MaxNow
    /\ now' = now + 1
    /\ UNCHANGED << api_keys, verifiers, granted >>
    /\ UNCHANGED outside_race

\* verify_api_key, line 133: the worker w reads the row
VerifierRead(w) ==
    /\ verifiers[w].pc = "idle"
    /\ \A k \in DOMAIN api_keys :
          api_keys[k].usage_limit > 0 \/ api_keys[k].usage_count < MaxUses
    /\ verifiers' = [verifiers EXCEPT ![w] =
          [pc |-> "read", key |-> Keys[1], api_key |-> get_api_key(api_keys, Keys[1])]]
    /\ UNCHANGED << api_keys, now, granted >>
    /\ UNCHANGED outside_race

\* verify_api_key of the worker w returns value, the table being table then
VerifierReturns(w, value, table) ==
    /\ verifiers' = [verifiers EXCEPT ![w] = [pc |-> "returned", is_valid |-> value]]
    /\ api_keys' = table
    /\ granted' = IF value THEN granted + 1 ELSE granted

\* verify_api_key, lines 135-155, for the row the worker w read
VerifierDecide(w) ==
    /\ verifiers[w].pc = "read"
    /\ IF verifiers[w].api_key = << >> THEN VerifierReturns(w, FALSE, api_keys)
       ELSE IF ~verifiers[w].api_key[1].is_active
       THEN VerifierReturns(w, FALSE, api_keys)
       ELSE IF /\ verifiers[w].api_key[1].expires_at # << >>
               /\ now > verifiers[w].api_key[1].expires_at[1]
       THEN VerifierReturns(w, FALSE, deactivate(api_keys, verifiers[w].key))
       ELSE IF limit_reached(verifiers[w].api_key[1])
       THEN VerifierReturns(w, FALSE, api_keys)
       ELSE VerifierReturns(w, TRUE, increment_usage(api_keys, verifiers[w].key))
    /\ UNCHANGED now
    /\ UNCHANGED outside_race

\* the caller of the worker w has the value
VerifierDone(w) ==
    /\ verifiers[w].pc = "returned"
    /\ verifiers' = [verifiers EXCEPT ![w] = [pc |-> "idle"]]
    /\ UNCHANGED << api_keys, now, granted >>
    /\ UNCHANGED outside_race

NextRace ==
    \/ IssueKey
    \/ RaceTick
    \/ \E w \in Workers :
          \/ VerifierRead(w)
          \/ VerifierDecide(w)
          \/ VerifierDone(w)

SpecRace == Init /\ [][NextRace]_vars

(***************************************************************************)
(* Properties                                                              *)
(***************************************************************************)
\* the predictions list of the detector's response (empty when it has none)
Predictions ==
    IF results.json = "object" THEN Get(results.value, "predictions", << >>)
    ELSE << >>

\* process_image returned the full envelope / the error envelope
Full == pc = "done" /\ "total_detected" \in DOMAIN output
Errored == pc = "done" /\ "error" \in DOMAIN output

\* the label a detection is grouped under
LabelOf(d) == Get(d, "class", "unknown")

\* the number of detections of the response that carry label c
CountOf(c) ==
    Cardinality({i \in 1..Len(Predictions) : LabelOf(Predictions[i]) = c})

\* where the i-th detection of the response stands in all_predictions
PositionOf(i) ==
    CHOOSE k \in 1..Len(output.all_predictions) :
        output.all_predictions[k].detection_id = Predictions[i].detection_id

InBrowser(x, y) ==
    /\ 0 <= x /\ x <= FULL_BROWSER_WIDTH
    /\ 0 <= y /\ y <= FULL_BROWSER_HEIGHT

\* C1: all_predictions is in non-increasing order of confidence, a
\* detection without a confidence counting as 0
C1_NonIncreasingConfidence ==
    pc = "done" =>
        /\ \A i \in 1..(Len(output.all_predictions) - 1) :
              output.all_predictions[i].confidence
                  >= output.all_predictions[i + 1].confidence
        /\ Full =>
              \A i \in 1..Len(Predictions) :
                  "confidence" \notin DOMAIN Predictions[i] =>
                      output.all_predictions[PositionOf(i)].confidence = 0

\* a full envelope for detections that arrived in ascending order of
\* confidence, one of them without a confidence (Scenario B among them)
C1_Witness ==
    /\ Full
    /\ Len(Predictions) = 3
    /\ "confidence" \notin DOMAIN Predictions[1]
    /\ Get(Predictions[2], "confidence", 0) = 90
    /\ Get(Predictions[3], "confidence", 0) = 95
    /\ Get(Predictions[2], "class", "") = "A"
    /\ Get(Predictions[3], "class", "") = "A"
    /\ output.all_predictions[1].confidence = 95

\* C2: the sort is stable: detections of equal confidence keep the order
\* they have in the detector's predictions list
C2_StableSort ==
    Full =>
        \A i, j \in 1..Len(Predictions) :
            (i < j /\ Get(Predictions[i], "confidence", 0)
                        = Get(Predictions[j], "confidence", 0))
                => PositionOf(i) < PositionOf(j)

\* two detections of equal confidence with a more confident one between
C2_Witness ==
    /\ Full
    /\ Len(Predictions) = 3
    /\ Get(Predictions[1], "confidence", 0) = 90
    /\ Get(Predictions[2], "confidence", 0) = 95
    /\ Get(Predictions[3], "confidence", 0) = 90
    /\ PositionOf(2) = 1 /\ PositionOf(1) = 2 /\ PositionOf(3) = 3

\* the duplicate criterion on the returned value
DuplicateCriterion ==
    LET dc     == output.duplicate_characters
        labels == { LabelOf(Predictions[i]) : i \in 1..Len(Predictions) }
                    \cup { dc[k].class_name : k \in 1..Len(dc) }
    IN  /\ \A c \in labels :
              (\E k \in 1..Len(dc) : dc[k].class_name = c) <=> CountOf(c) > 1
        /\ \A k \in 1..Len(dc) : dc[k].count = CountOf(dc[k].class_name)
        /\ \A k, l \in 1..Len(dc) : dc[k].class_name = dc[l].class_name => k = l
        /\ Get(output, "duplicate_count", 0) = Len(dc)

\* C3 (as amended): in every full envelope a label is a key of
\* duplicate_characters iff more than one detection carries it, its count
\* is the number of these detections, and duplicate_count is the number of
\* keys
C3_DuplicateCriterion ==
    Full => /\ DuplicateCriterion
            /\ "duplicate_count" \in DOMAIN output

\* C3 as stated: the criterion for every list of detections, whatever the
\* image size
C3_Original ==
    (pc = "done" /\ results.json = "object") => DuplicateCriterion

\* a duplicate class of two next to a class of one
C3_Witness ==
    /\ Full
    /\ Len(Predictions) = 3
    /\ CountOf("A") = 2
    /\ CountOf("unknown") = 1
    /\ output.duplicate_count = 1
    /\ output.duplicate_characters[1].class_name = "A"
    /\ output.duplicate_characters[1].count = 2

\* C4: in a full envelope every detection of the response is in
\* all_predictions exactly once, and total_detected counts them
C4_Coverage ==
    Full =>
        /\ Len(output.all_predictions) = Len(Predictions)
        /\ output.total_detected = Len(Predictions)
        /\ \A i \in 1..Len(Predictions) :
              Cardinality({k \in 1..Len(output.all_predictions) :
                  output.all_predictions[k].detection_id
                      = Predictions[i].detection_id}) = 1

\* three detections, two of them of one class
C4_Witness ==
    /\ Full
    /\ Len(Predictions) = 3
    /\ output.duplicate_count = 1
    /\ Len(output.duplicates) = 2
    /\ Len(output.all_predictions) = 3

\* C5: convert_coordinates returns a point of the browser canvas, and so
\* every record of all_predictions, duplicates and duplicate_characters
\* lies in it
C5_Clamped ==
    /\ conv_result.kind = "return" =>
          InBrowser(conv_result.value[1], conv_result.value[2])
    /\ pc = "done" =>
          /\ \A k \in 1..Len(output.all_predictions) :
                InBrowser(output.all_predictions[k].browser_x,
                          output.all_predictions[k].browser_y)
          /\ \A k \in 1..Len(output.duplicates) :
                InBrowser(output.duplicates[k].browser_x,
                          output.duplicates[k].browser_y)
          /\ \A k \in 1..Len(output.duplicate_characters) :
                \A l \in 1..Len(output.duplicate_characters[k].details) :
                    InBrowser(output.duplicate_characters[k].details[l].browser_x,
                              output.duplicate_characters[k].details[l].browser_y)

\* a negative x and a very large y with a very large negative offset,
\* clamped to the left and the bottom edge
C5_Witness ==
    /\ conv_result.kind = "return"
    /\ conv_call.image_coord = <<-100000, 100000>>
    /\ conv_call.captcha_offset = <<-100000, 100000>>
    /\ conv_call.image_size = <<300, 150>>
    /\ conv_result.value = <<0, FULL_BROWSER_HEIGHT>>

\* Scenario A as a call of convert_coordinates
ScenarioA ==
    /\ conv_call.image_coord = <<150, 75>>
    /\ conv_call.image_size = <<300, 150>>
    /\ conv_call.captcha_offset = <<50, 100>>

\* Scenario A inside process_image: the records of a full envelope for
\* image size (300,150) and offset (50,100) that stand at point (150,75)
ScenarioARecords ==
    IF Full /\ output.image.width = 300 /\ output.image.height = 150
            /\ output.coordinate_transform.offset_x = 50
            /\ output.coordinate_transform.offset_y = 100
    THEN { output.all_predictions[k] : k \in
             { l \in 1..Len(output.all_predictions) :
                 /\ output.all_predictions[l].x = 150
                 /\ output.all_predictions[l].y = 75 } }
    ELSE { }

\* C6 (as amended): Scenario A scales the point to (144,90) and gives the
\* browser coordinate (194,190)
C6_ScenarioA ==
    /\ (conv_result.kind = "return" /\ ScenarioA) =>
          /\ conv_result.value = <<194, 190>>
          /\ conv_result.value[1] - conv_call.captcha_offset[1] = 144
          /\ conv_result.value[2] - conv_call.captcha_offset[2] = 90
    /\ \A r \in ScenarioARecords : r.browser_x = 194 /\ r.browser_y = 190

\* C6 as stated: Scenario A scales to (144,89) and gives (194,189)
C6_Original ==
    (conv_result.kind = "return" /\ ScenarioA) =>
        /\ conv_result.value = <<194, 189>>
        /\ conv_result.value[1] - conv_call.captcha_offset[1] = 144
        /\ conv_result.value[2] - conv_call.captcha_offset[2] = 89

\* the call of Scenario A has returned
C6_Witness == conv_result.kind = "return" /\ ScenarioA

\* C7: a detection without a class is recorded with class "unknown" and is
\* grouped and counted with the detections whose class is "unknown"
C7_DefaultClass ==
    Full =>
        LET unknown == { i \in 1..Len(Predictions) :
                           LabelOf(Predictions[i]) = "unknown" }
            dc      == output.duplicate_characters
            entries == { k \in 1..Len(dc) : dc[k].class_name = "unknown" }
        IN  /\ \A i \in 1..Len(Predictions) :
                  "class" \notin DOMAIN Predictions[i] =>
                      output.all_predictions[PositionOf(i)].class = "unknown"
            /\ Cardinality(unknown) > 1 =>
                  /\ Cardinality(entries) = 1
                  /\ \A k \in entries :
                        /\ dc[k].count = Cardinality(unknown)
                        /\ { dc[k].details[l].detection_id :
                               l \in 1..Len(dc[k].details) }
                             = { Predictions[i].detection_id : i \in unknown }
            /\ Cardinality(unknown) <= 1 => entries = { }
            /\ output.unique_characters =
                  Cardinality({ LabelOf(Predictions[i]) : i \in 1..Len(Predictions) })

\* a detection without a class and one of class "unknown" form one
\* duplicate class, next to a detection of class "A"
C7_Witness ==
    /\ Full
    /\ Len(Predictions) = 3
    /\ "class" \notin DOMAIN Predictions[1]
    /\ Get(Predictions[2], "class", "") = "A"
    /\ Get(Predictions[3], "class", "") = "unknown"
    /\ output.unique_characters = 2
    /\ output.duplicate_count = 1
    /\ output.duplicate_characters[1].class_name = "unknown"

\* the detector's predictions list is empty
EmptyPredictions ==
    /\ results.json = "object"
    /\ "predictions" \in DOMAIN results.value
    /\ results.value.predictions = << >>

\* the envelope of Scenario C
ZeroEnvelope ==
    /\ Full
    /\ output.total_detected = 0
    /\ output.unique_characters = 0
    /\ output.duplicate_count = 0
    /\ output.all_predictions = << >>

\* C8 (as amended): an empty predictions list gives the envelope of
\* Scenario C when the response has an image object that reports neither
\* a width of 0 nor a height of 0
C8_EmptyPredictions ==
    ( /\ pc = "done"
      /\ EmptyPredictions
      /\ "image" \in DOMAIN results.value
      /\ Get(results.value.image, "width", 1) # 0
      /\ Get(results.value.image, "height", 1) # 0 ) => ZeroEnvelope

\* C8 as stated: an empty predictions list gives the envelope of Scenario C
C8_Original == (pc = "done" /\ EmptyPredictions) => ZeroEnvelope

\* an empty predictions list for an image of 300 x 150
C8_Witness ==
    /\ pc = "done"
    /\ EmptyPredictions
    /\ "image" \in DOMAIN results.value
    /\ results.value.image = [width |-> 300, height |-> 150]
    /\ ZeroEnvelope

FullKeys ==
    { "all_predictions", "coordinate_transform", "duplicate_characters",
      "duplicate_count", "duplicates", "image", "total_detected",
      "unique_characters" }

ErrorKeys ==
    { "error", "details", "duplicate_characters", "duplicates",
      "all_predictions" }

IsErrorEnvelope(o) ==
    /\ DOMAIN o = ErrorKeys
    /\ o.duplicate_characters = << >>
    /\ o.duplicates = << >>
    /\ o.all_predictions = << >>

\* C9: process_image returns the full envelope or the error envelope for
\* every outcome; the error envelope has a message, details and the three
\* empty placeholders, and it is what a call returns whose detector call
\* failed or answered with something other than a JSON object
C9_NeverRaises ==
    pc = "done" =>
        /\ DOMAIN output = FullKeys \/ IsErrorEnvelope(output)
        /\ results.json # "object" => IsErrorEnvelope(output)

\* the error envelope of a division by zero in the loop over two
\* detections
C9_Witness ==
    /\ pc = "done"
    /\ IsErrorEnvelope(output)
    /\ results.json = "object"
    /\ Len(Predictions) = 2
    /\ output.error = "division by zero"

\* C10: a response without an image key gets the image {width: 0,
\* height: 0} and ends in the error envelope of the division by zero,
\* whatever its predictions list
C10_ScenarioD ==
    (pc = "done" /\ results.json = "object"
                 /\ "image" \notin DOMAIN results.value) =>
        /\ ensure_fields(results.value).image = [width |-> 0, height |-> 0]
        /\ IsErrorEnvelope(output)
        /\ output.error = "division by zero"

\* a response with neither an image nor a detection
C10_Witness ==
    /\ pc = "done"
    /\ EmptyPredictions
    /\ "image" \notin DOMAIN results.value
    /\ Errored

(***************************************************************************)
(* The detector call and the offsets                                       *)
(***************************************************************************)
\* C13: analyze_image_with_roboflow sends at most 3 requests: a request is
\* only sent while fewer than 3 have been sent, an answer with status 200
\* and a JSON body ends the call with that JSON, and the third timeout in a
\* row ends it with the error of giving up
C13_BoundedAttempts ==
    /\ posts <= 3
    /\ pc = "post" => posts < 3
    /\ outcome = "200" =>
          /\ pc \in {"assemble", "done"}
          /\ results.json \in {"object", "array"}
    /\ (posts = 3 /\ outcome = "timeout") =>
          /\ pc = "done"
          /\ IsErrorEnvelope(output)
          /\ output.error =
                "Loi khi xu ly file anh: Khong the ket noi den Roboflow API sau nhieu lan thu"

\* process_image has returned after three requests that all timed out
C13_Witness ==
    /\ pc = "done"
    /\ posts = 3
    /\ outcome = "timeout"
    /\ Errored

\* C14: only a timeout is followed by another attempt; a non-200 answer or
\* a request error that is no timeout ends the call at that attempt,
\* whichever attempt it is, and process_image returns the error envelope
\* with the descriptive message
C14_OnlyTimeoutRetries ==
    /\ (pc = "post" /\ posts > 0) => outcome = "timeout"
    /\ outcome = "non200" =>
          /\ pc = "done"
          /\ output = error_output("Loi khi xu ly file anh: Loi API Roboflow")
    /\ outcome = "request_error" =>
          /\ pc = "done"
          /\ output = error_output("Loi khi xu ly file anh: Loi ket noi")

\* a non-200 answer to the third request, after two timeouts
C14_Witness ==
    /\ pc = "done"
    /\ posts = 3
    /\ outcome = "non200"
    /\ Errored

\* the offset process_image must use for the argument name
ExpectedOffset(name, default) ==
    IF name \in DOMAIN args THEN args[name] ELSE default

\* C19: each offset is defaulted on its own (x to 107, y to 197), and the
\* offsets used for the browser coordinates are the ones the envelope
\* echoes in coordinate_transform and image
C19_IndependentOffsets ==
    /\ pc # "idle" =>
          /\ captcha_offset_x = ExpectedOffset("captcha_offset_x", 107)
          /\ captcha_offset_y = ExpectedOffset("captcha_offset_y", 197)
    /\ Full =>
          /\ output.coordinate_transform.offset_x = ExpectedOffset("captcha_offset_x", 107)
          /\ output.coordinate_transform.offset_y = ExpectedOffset("captcha_offset_y", 197)
          /\ output.image.captcha_offset_x = output.coordinate_transform.offset_x
          /\ output.image.captcha_offset_y = output.coordinate_transform.offset_y
          /\ \A i \in 1..Len(output.all_predictions) :
                << output.all_predictions[i].browser_x,
                   output.all_predictions[i].browser_y >>
                  = convert_coordinates(
                        << output.all_predictions[i].x, output.all_predictions[i].y >>,
                        << output.image.width, output.image.height >>,
                        << output.coordinate_transform.offset_x,
                           output.coordinate_transform.offset_y >>)

\* full envelopes with detections, one for a call that passed only
\* captcha_offset_y and one for a call that passed only captcha_offset_x
C19_Witness ==
    /\ Full
    /\ Len(output.all_predictions) = 2
    /\ \/ /\ args = [captcha_offset_x |-> 0]
          /\ output.coordinate_transform.offset_x = 0
          /\ output.coordinate_transform.offset_y = CAPTCHA_IMAGE_Y
       \/ /\ args = [captcha_offset_y |-> -700]
          /\ output.coordinate_transform.offset_x = CAPTCHA_IMAGE_X
          /\ output.coordinate_transform.offset_y = -700

(***************************************************************************)
(* The HTTP layer                                                          *)
(***************************************************************************)
Responded == http_pc = "responded"

\* the handling of the request failed: an except clause of the handler
\* answered, or process_image returned the error envelope
InternalFailure ==
    /\ Responded
    /\ result = << >> \/ IsErrorEnvelope(result)
    /\ ~("body" \in DOMAIN http_request.input
            /\ http_request.input.body \in {"invalid_json", "no_image_base64",
                                            "undecodable"})
    /\ ~("get" \in DOMAIN http_request.input /\ http_request.input.get = "404")

\* C11: a request whose handling fails inside the service is answered with
\* status 500 and the error envelope, and no error envelope is sent with a
\* success status
C11_InternalFailure500 ==
    Responded =>
        /\ InternalFailure =>
              http_response.status = 500 /\ IsErrorEnvelope(http_response.body)
        /\ IsErrorEnvelope(http_response.body) =>
              http_response.status \notin 200..299

\* the request carries malformed input: base64 that cannot be decoded, a
\* URL that answers with a status other than 200, bytes that are no image
MalformedInput ==
    \/ /\ http_request.endpoint \in {"/process_base64", "/process_base64_json"}
       /\ http_request.input.body = "undecodable"
    \/ /\ http_request.endpoint = "/process_url"
       /\ http_request.input.get = "404"
    \/ /\ "image" \in DOMAIN http_request.input
       /\ http_request.input.image = "not_image"

\* C12: malformed input is answered with a 4xx status
C12_Malformed4xx ==
    (Responded /\ MalformedInput) => http_response.status \in 400..499


\* verify_api_key has returned and its caller has not answered yet
Verified == key_pc = "verified"

\* the step in which verify_api_key decides, writes and returns
VerifyStep == key_pc = "read" /\ key_pc' = "verified"

\* the row verify_api_key read is one the claim calls usable on day t
Usable(row, t) ==
    /\ row # << >>
    /\ row[1].is_active
    /\ row[1].expires_at = << >> \/ t <= row[1].expires_at[1]
    /\ row[1].usage_limit <= 0 \/ row[1].usage_count < row[1].usage_limit

\* a true verdict adds one to the usage_count of the key and changes nothing
\* else; a false one changes no usage_count
VerdictCounts ==
    VerifyStep =>
        IF is_valid'
        THEN /\ key_request.key[1] \in DOMAIN api_keys
             /\ api_keys' = [api_keys EXCEPT ![key_request.key[1]].usage_count = @ + 1]
        ELSE /\ DOMAIN api_keys' = DOMAIN api_keys
             /\ \A k \in DOMAIN api_keys :
                   api_keys'[k].usage_count = api_keys[k].usage_count

\* C15: verify_api_key(key) returns true exactly when the row of key exists,
\* is active, is not past its expires_at and has usage_limit <= 0 or
\* usage_count < usage_limit; a call that returns true adds exactly 1 to the
\* usage_count of the key and a call that returns false changes no
\* usage_count
C15_VerifyVerdict ==
    /\ [](Verified => (is_valid <=> Usable(api_key, key_request.checked_at)))
    /\ [][VerdictCounts]_vars

\* verify_api_key has refused a key at its limit after accepting it twice
\* and has accepted a key without a limit at the count 1
C15_Witness ==
    /\ Verified
    /\ "k1" \in DOMAIN api_keys
    /\ api_key # << >>
    /\ \/ /\ ~is_valid
          /\ api_key[1].is_active
          /\ api_key[1].usage_limit = 2
          /\ api_key[1].usage_count = 2
          /\ api_keys["k1"].usage_count = 2
          /\ key_request.checked_at <= api_key[1].expires_at[1]
       \/ /\ is_valid
          /\ api_key[1].usage_limit = 0
          /\ api_key[1].usage_count = 1
          /\ api_keys["k1"].usage_count = 2

\* the row of key k is active and past its expires_at
Expired(k) ==
    /\ k \in DOMAIN api_keys
    /\ api_keys[k].is_active
    /\ api_keys[k].expires_at # << >>
    /\ now > api_keys[k].expires_at[1]

\* verify_api_key refuses an expired key and deactivates it
ExpiredRefused ==
    (VerifyStep /\ Expired(key_request.key[1])) =>
        /\ ~is_valid'
        /\ ~api_keys'[key_request.key[1]].is_active

\* no step of a request to a /secure route changes is_active of a key
\* created with expires_in_days <= 0
NoExpiryKept ==
    key_pc \in {"verify", "read", "verified"} =>
        \A k \in DOMAIN api_keys :
            api_keys[k].expires_in_days <= 0 =>
                api_keys'[k].is_active = api_keys[k].is_active

\* C16: verify_api_key called on an active key whose expires_at is in the
\* past returns false and sets is_active to false; a key created with
\* expires_in_days <= 0 has no expiry and verify_api_key never deactivates it
C16_Expiry ==
    /\ [](\A k \in DOMAIN api_keys :
             api_keys[k].expires_in_days <= 0 => api_keys[k].expires_at = << >>)
    /\ [][ExpiredRefused]_vars
    /\ [][NoExpiryKept]_vars

\* verify_api_key has refused and deactivated k1, read active on the day
\* after its expiry, and has before accepted k2, created with
\* expires_in_days = 0
C16_Witness ==
    /\ Verified
    /\ ~is_valid
    /\ key_request.key = <<"k1">>
    /\ api_key # << >>
    /\ api_key[1].is_active
    /\ api_key[1].expires_at = <<1>>
    /\ key_request.checked_at = 2
    /\ ~api_keys["k1"].is_active
    /\ "k2" \in DOMAIN api_keys
    /\ api_keys["k2"].expires_in_days = 0
    /\ api_keys["k2"].is_active
    /\ api_keys["k2"].usage_count = 1

\* the step in which DELETE /api/keys/{key} of an admin is served
DeactivateStep ==
    /\ key_pc = "idle"
    /\ key_request'.kind = "delete"
    /\ key_request'.admin

\* deactivate_api_key(key) returned true: the endpoint did not answer 404
Deactivated == key_response'.status = 200

\* C17: deactivate_api_key(key) returns true if and only if a row for key
\* exists, also when the row is already inactive, and the row is then
\* inactive; for an unknown key it returns false, no row changes and
\* DELETE /api/keys/{key} answers 404
C17_Deactivate ==
    [][DeactivateStep =>
          /\ Deactivated <=> key_request'.key \in DOMAIN api_keys
          /\ Deactivated =>
                api_keys' = [api_keys EXCEPT ![key_request'.key].is_active = FALSE]
          /\ ~Deactivated => api_keys' = api_keys /\ key_response'.status = 404]_vars

\* DELETE has answered 200 for k1 a second time, k1 being inactive before,
\* the other key being active still
C17_Witness ==
    /\ key_pc = "responded"
    /\ key_request.kind = "delete"
    /\ key_request.admin
    /\ key_request.key = "k1"
    /\ key_request.again
    /\ key_response.status = 200
    /\ ~api_keys["k1"].is_active
    /\ "k2" \in DOMAIN api_keys
    /\ api_keys["k2"].is_active

\* a request to a /secure route has been answered
SecureResponded == key_pc = "responded" /\ key_request.kind = "secure"

\* verify_api_key was called with key k and returned true
VerifiedTrue(k) ==
    /\ "checked_at" \in DOMAIN key_request
    /\ key_request.key = k
    /\ is_valid

\* the handler ran exactly when verify_api_key returned true for the key k,
\* and the response is 403 otherwise
GatedBy(k) ==
    /\ key_response.handler <=> (k # << >> /\ VerifiedTrue(k))
    /\ ~key_response.handler => key_response.status = 403

\* the header value when a header is sent, the query parameter otherwise
HeaderIfSent ==
    IF key_request.header # << >> THEN key_request.header ELSE key_request.query

\* the header value when a header with a value is sent, the query parameter
\* otherwise
HeaderIfNotEmpty ==
    IF key_request.header # << >> /\ key_request.header[1] # ""
    THEN key_request.header
    ELSE key_request.query

\* C18 as stated: the presented key is the X-API-Key header value when a
\* header is sent, the api_key query parameter otherwise
C18_Original == SecureResponded => GatedBy(HeaderIfSent)

\* C18: a /secure route runs its handler only if verify_api_key returned
\* true for the presented key, which is the X-API-Key header value when a
\* header with a non-empty value is sent and the api_key query parameter
\* otherwise; with no key or a key that fails verification the response is
\* 403 and the handler does not run, so a valid query key does not rescue an
\* invalid header key
C18_SecureGate == SecureResponded => GatedBy(HeaderIfNotEmpty)

\* the key k1 would pass verify_api_key on any day
AlwaysUsable(k) ==
    /\ k \in DOMAIN api_keys
    /\ api_keys[k].is_active
    /\ api_keys[k].expires_at = << >>
    /\ api_keys[k].usage_limit <= 0

\* a request with an unknown key in the header and a usable key in the
\* query has been refused
C18_Witness ==
    /\ SecureResponded
    /\ key_request.header = <<"zz">>
    /\ key_request.query = <<"k1">>
    /\ AlwaysUsable("k1")
    /\ key_response.status = 403
    /\ ~key_response.handler

\* what process_image returns for the call i when it runs alone
Alone(i) ==
    process_image("image",
                  [kind |-> "200",
                   json |-> [json |-> "object", value |-> calls[i].response]],
                  calls[i].arguments)

\* no object is held by two calls
OwnedApart ==
    \A i, j \in Invocations :
        i # j => Owned(heap, calls[i]) \cap Owned(heap, calls[j]) = {}

\* a step that is not a step of the call j leaves the objects of j as they are
OthersUntouched ==
    \A j \in Invocations :
        calls'[j] = calls[j] =>
            \A a \in Owned(heap, calls[j]) :
                a \in DOMAIN heap' /\ heap'[a] = heap[a]

\* C20: concurrent process_image calls do not interfere: under every
\* interleaving each call returns what it returns when it runs alone on its
\* own detector response, and the class written in place into a prediction is
\* in an object of the call that owns the predictions list: no call writes an
\* object of another call
C20_Independent ==
    /\ [](\A i \in Invocations : calls[i].pc = "done" => calls[i].output = Alone(i))
    /\ []OwnedApart
    /\ [][OthersUntouched]_vars

\* call 1 has returned a full envelope whose first record has the class
\* written in place, while call 2 is in its loop, has written the class into
\* its first prediction and not yet into its second
C20_Witness ==
    /\ calls[1].pc = "done"
    /\ calls[1].response = ConcurrentResponses[2]
    /\ "total_detected" \in DOMAIN calls[1].output
    /\ calls[1].output.all_predictions[1].class = "unknown"
    /\ calls[2].pc = "group"
    /\ calls[2].response = ConcurrentResponses[1]
    /\ calls[2].n = 2
    /\ "class" \notin DOMAIN heap[calls[2].sorted_predictions[2]]
    /\ calls[2].results < calls[1].results

\* the calls i and j have returned, for the same detector response and the
\* same offsets
SameRun(i, j) ==
    /\ calls[i].pc = "done"
    /\ calls[j].pc = "done"
    /\ calls[i].response = calls[j].response
    /\ calls[i].captcha_offset_x = calls[j].captcha_offset_x
    /\ calls[i].captcha_offset_y = calls[j].captcha_offset_y

FirstAt(c) ==
    CHOOSE k \in 1..Len(output.all_predictions) :
        /\ output.all_predictions[k].class = c
        /\ \A l \in 1..(k - 1) : output.all_predictions[l].class # c

\* the number of records in the details lists of the first k duplicate
\* classes
RECURSIVE DetailsUpTo(_)
DetailsUpTo(k) ==
    IF k = 0 THEN 0
    ELSE DetailsUpTo(k - 1) + Len(output.duplicate_characters[k].details)

\* C22: duplicates is the concatenation of the details lists of the
\* duplicate classes, the classes in the order in which they first occur in
\* the confidence-sorted detections; it holds every member of every
\* duplicate class once and no member of a class with a single detection
C22_DuplicatesList ==
    Full =>
        /\ Len(output.duplicates) = DetailsUpTo(Len(output.duplicate_characters))
        /\ \A k \in 1..Len(output.duplicate_characters) :
              \A j \in 1..Len(output.duplicate_characters[k].details) :
                  output.duplicates[DetailsUpTo(k - 1) + j]
                      = output.duplicate_characters[k].details[j]
        /\ \A k, l \in 1..Len(output.duplicate_characters) :
              k < l => FirstAt(output.duplicate_characters[k].class_name)
                           < FirstAt(output.duplicate_characters[l].class_name)
        /\ \A a \in 1..Len(output.all_predictions) :
              Cardinality({d \in 1..Len(output.duplicates) :
                              output.duplicates[d] = output.all_predictions[a]})
                  = IF CountOf(output.all_predictions[a].class) > 1 THEN 1 ELSE 0
        /\ \A d \in 1..Len(output.duplicates) :
              \E a \in 1..Len(output.all_predictions) :
                  output.duplicates[d] = output.all_predictions[a]

\* four detections, "A" first in the response and the unlabelled ones more
\* confident: duplicates holds the two "unknown" records before the two "A"
C22_Witness ==
    /\ Full
    /\ Len(Predictions) = 4
    /\ Get(Predictions[1], "class", "") = "A"
    /\ Get(Predictions[1], "confidence", 0) = 90
    /\ "class" \notin DOMAIN Predictions[2]
    /\ Get(Predictions[2], "confidence", 0) = 95
    /\ Len(output.duplicate_characters) = 2
    /\ output.duplicate_characters[1].class_name = "unknown"
    /\ output.duplicate_characters[2].class_name = "A"
    /\ Len(output.duplicates) = 4
    /\ output.duplicates[1].class = "unknown"
    /\ output.duplicates[2].class = "unknown"
    /\ output.duplicates[3].class = "A"
    /\ output.duplicates[4].class = "A"

\* where the record r stands in all_predictions
PlaceOf(r) ==
    CHOOSE a \in 1..Len(output.all_predictions) :
        output.all_predictions[a].detection_id = r.detection_id

\* C23: the sort of each group changes nothing: the details list of every
\* duplicate class holds the detections of the class, all of them, in the
\* order they have in all_predictions, also those of equal confidence
C23_GroupSortNoOp ==
    Full =>
        \A k \in 1..Len(output.duplicate_characters) :
            /\ Len(output.duplicate_characters[k].details)
                   = CountOf(output.duplicate_characters[k].class_name)
            /\ \A j \in 1..Len(output.duplicate_characters[k].details) :
                  output.duplicate_characters[k].details[j]
                      = output.all_predictions[
                            PlaceOf(output.duplicate_characters[k].details[j])]
            /\ \A i, j \in 1..Len(output.duplicate_characters[k].details) :
                  i < j => PlaceOf(output.duplicate_characters[k].details[i])
                               < PlaceOf(output.duplicate_characters[k].details[j])

\* a class of three, the second detection the most confident and the other
\* two of equal confidence: details holds the second, the first, the third
C23_Witness ==
    /\ Full
    /\ Len(Predictions) = 3
    /\ CountOf("A") = 3
    /\ Get(Predictions[1], "confidence", 0) = 90
    /\ Get(Predictions[2], "confidence", 0) = 95
    /\ Get(Predictions[3], "confidence", 0) = 90
    /\ Len(output.duplicate_characters) = 1
    /\ output.duplicate_characters[1].details[1].detection_id = "2"
    /\ output.duplicate_characters[1].details[2].detection_id = "1"
    /\ output.duplicate_characters[1].details[3].detection_id = "3"

\* t is the float v, given in tenths, without its fractional part
IsTruncation(t, v) ==
    IF v >= 0 THEN 10 * t <= v /\ v < 10 * t + 10
    ELSE v <= 10 * t /\ 10 * t - 10 < v

\* the record r has the truncated geometry of the raw detection d and the
\* browser coordinate of its truncated x and y
TruncatedRecord(r, d) ==
    /\ IsTruncation(r.x, d.x)
    /\ IsTruncation(r.y, d.y)
    /\ IsTruncation(r.width, d.width)
    /\ IsTruncation(r.height, d.height)
    /\ << r.browser_x, r.browser_y >>
           = convert_coordinates(<< r.x, r.y >>,
                                 << output.image.width, output.image.height >>,
                                 << captcha_offset_x, captcha_offset_y >>)

\* C24: x, y, width and height of every record are the raw values
\* truncated toward zero, also the negative ones, and browser_x and
\* browser_y are the mapper's point for the truncated x and y: two
\* detections that differ in the fractional part of x and y only have the
\* same browser coordinate
C24_Truncation ==
    Full =>
        /\ \A i \in 1..Len(Predictions) :
              TruncatedRecord(output.all_predictions[PositionOf(i)], Predictions[i])
        /\ \A k \in 1..Len(output.duplicates) :
              \E i \in 1..Len(Predictions) :
                  /\ output.duplicates[k].detection_id = Predictions[i].detection_id
                  /\ TruncatedRecord(output.duplicates[k], Predictions[i])
        /\ \A a, b \in 1..Len(output.all_predictions) :
              (/\ output.all_predictions[a].x = output.all_predictions[b].x
               /\ output.all_predictions[a].y = output.all_predictions[b].y)
                 => /\ output.all_predictions[a].browser_x
                           = output.all_predictions[b].browser_x
                    /\ output.all_predictions[a].browser_y
                           = output.all_predictions[b].browser_y

\* detections at (150.7, 75.2) and (150.2, 75.9) are both at (150, 75) and
\* have one browser coordinate; the one at (-1000.7, 99999.9) is at
\* (-1000, 99999)
C24_Witness ==
    /\ Full
    /\ Len(Predictions) = 3
    /\ Predictions[1].x = 1507 /\ Predictions[1].y = 752
    /\ Predictions[2].x = 1502 /\ Predictions[2].y = 759
    /\ Predictions[3].x = -10007 /\ Predictions[3].y = 999999
    /\ output.all_predictions[PositionOf(1)].x = 150
    /\ output.all_predictions[PositionOf(1)].y = 75
    /\ output.all_predictions[PositionOf(2)].x = 150
    /\ output.all_predictions[PositionOf(2)].y = 75
    /\ output.all_predictions[PositionOf(1)].browser_x
           = output.all_predictions[PositionOf(2)].browser_x
    /\ output.all_predictions[PositionOf(1)].browser_y
           = output.all_predictions[PositionOf(2)].browser_y
    /\ output.all_predictions[PositionOf(3)].x = -1000
    /\ output.all_predictions[PositionOf(3)].y = 99999
    /\ output.all_predictions[PositionOf(3)].width = 1
    /\ output.all_predictions[PositionOf(3)].height = 0

\* the class labels among the detections of the response
Labels == { LabelOf(Predictions[i]) : i \in 1..Len(Predictions) }

\* C29: in every full envelope unique_characters is the number of distinct
\* class labels among the detections, a missing label counting as
\* "unknown", duplicate_count <= unique_characters <= total_detected, and
\* total_detected = len(duplicates) + unique_characters - duplicate_count
C29_Counters ==
    Full =>
        /\ output.unique_characters = Cardinality(Labels)
        /\ output.duplicate_count <= output.unique_characters
        /\ output.unique_characters <= output.total_detected
        /\ output.total_detected
               = Len(output.duplicates) + output.unique_characters
                     - output.duplicate_count

\* a detection without a label, one labelled "unknown" and one labelled
\* "A": two classes, one of them a duplicate class
C29_Witness ==
    /\ Full
    /\ Len(Predictions) = 3
    /\ "class" \notin DOMAIN Predictions[1]
    /\ Get(Predictions[2], "class", "") = "unknown"
    /\ Get(Predictions[3], "class", "") = "A"
    /\ output.total_detected = 3
    /\ output.unique_characters = 2
    /\ output.duplicate_count = 1
    /\ Len(output.duplicates) = 2

\* C30: a full envelope is returned only when the reported image width and
\* height are both non-zero: in every full envelope image.width > 0 and
\* image.height > 0, and x_ratio and y_ratio are 288 / image.width and
\* 179 / image.height rounded to 4 places
C30_FullOnlyNonZero ==
    Full =>
        /\ output.image.width > 0
        /\ output.image.height > 0
        /\ output.coordinate_transform.x_ratio
               = Round4(CAPTCHA_IMAGE_WIDTH, output.image.width)
        /\ output.coordinate_transform.y_ratio
               = Round4(CAPTCHA_IMAGE_HEIGHT, output.image.height)

\* C28: every temporary file a handler wrote is deleted before the handler
\* returns its response, whether process_image returned a full envelope or
\* an error envelope, and no temporary file exists between two requests
C28_TempFilesDeleted ==
    /\ http_pc \in {"responded", "idle"} => temp_file # "exists"
    /\ (http_pc = "responded" /\ http_response.status = 200) =>
          /\ temp_file = "deleted"
          /\ http_response.body = result

\* /process_url has answered with an error envelope of process_image, its
\* temporary file deleted
C28_Witness ==
    /\ http_pc = "responded"
    /\ http_request.endpoint = "/process_url"
    /\ http_response.status = 200
    /\ IsErrorEnvelope(http_response.body)
    /\ temp_file = "deleted"

\* a key that is inactive stays inactive
StaysInactive ==
    \A k \in DOMAIN api_keys :
        ~api_keys[k].is_active =>
            k \in DOMAIN api_keys' /\ ~api_keys'[k].is_active

\* an admin's GET /api/keys?active_only=true has been answered
ListedActive ==
    /\ key_pc = "responded"
    /\ key_request.kind = "list"
    /\ key_request.admin
    /\ key_request.active_only

\* C26: deactivation is permanent: no create, verify, deactivate or list
\* operation sets is_active of an inactive key to true again; a key for
\* which verify_api_key returns true is active then, so it has never been
\* inactive before the call; and list_api_keys(active_only=True) returns the
\* active keys only
C26_DeactivationPermanent ==
    /\ [][StaysInactive]_vars
    /\ []((Verified /\ is_valid) =>
             /\ api_key[1].is_active
             /\ api_keys[key_request.key[1]].is_active)
    /\ [](ListedActive =>
             key_response.keys = {k \in DOMAIN api_keys : api_keys[k].is_active})

\* k1, deactivated, is not in the list of the active keys, k2 is
C26_Witness ==
    /\ ListedActive
    /\ DOMAIN api_keys = {"k1", "k2"}
    /\ ~api_keys["k1"].is_active
    /\ api_keys["k1"].usage_count = 1
    /\ api_keys["k2"].is_active
    /\ key_response.keys = {"k2"}

\* the step in which an admin operation called with a wrong admin_key is
\* served
NotAdminStep ==
    /\ key_pc = "idle"
    /\ key_request'.kind \in {"create", "list", "delete"}
    /\ ~key_request'.admin

\* C27: POST /api/keys, GET /api/keys and DELETE /api/keys/{key} called with
\* an admin_key that is not the configured one answer 403 and leave the key
\* store unchanged: no key is created, deactivated or returned
C27_AdminOnly ==
    [][NotAdminStep =>
          /\ key_response'.status = 403
          /\ key_response'.keys = {}
          /\ api_keys' = api_keys]_vars

\* DELETE for the active key k1 with a wrong admin_key has been answered 403
C27_Witness ==
    /\ key_pc = "responded"
    /\ key_request.kind = "delete"
    /\ ~key_request.admin
    /\ key_request.key = "k1"
    /\ key_response.status = 403
    /\ "k1" \in DOMAIN api_keys
    /\ api_keys["k1"].is_active

\* C25: for a key with usage_limit L > 0 the number of verify_api_key calls
\* that return true never exceeds L and usage_count never exceeds L, under
\* every interleaving of the verify calls of the worker processes
C25_LimitHolds ==
    \A k \in DOMAIN api_keys :
        api_keys[k].usage_limit > 0 =>
            /\ api_keys[k].usage_count <= api_keys[k].usage_limit
            /\ granted <= api_keys[k].usage_limit

=============================================================================
